---------------------------- MODULE Spec2Model ----------------------------
(***************************************************************************)
(* hgt2png: conversion of SRTM .hgt elevation rasters into PNG heightmaps. *)
(*                                                                         *)
(* The module holds one state machine per part of the program:             *)
(*   SpecDecode  processElevationValue applied to one 16-bit sample        *)
(*   SpecParse   the raster-type / dimension detection of main's pre-scan  *)
(*   SpecData    pre-scan and pixel conversion of the samples of one file  *)
(*   SpecScan    the pre-scan loop over the samples of every file          *)
(*   Spec        main, processFilesParallel / processFilesSequential and   *)
(*               the processFileWorker threads (control flow, mutex,       *)
(*               shared counters, stages of a file)                        *)
(*   SpecDetail  AddProceduralDetail on one raster                         *)
(*   SpecVeg     calculate_vegetation_density_alpine on one pixel          *)
(*   SpecMask    the row loop of generate_vegetation_mask                  *)
(*   FairSpec    Spec with fair scheduling of main and the workers         *)
(* A variable that a specification does not use keeps its initial value.   *)
(***************************************************************************)
EXTENDS Integers, Sequences, FiniteSets, TLC

VARIABLES
    decode,     \* SpecDecode: one call of processElevationValue
    parse,      \* SpecParse: raster type detection for one input file
    run,        \* SpecData: the samples of a single-file run
    detail,     \* SpecDetail: one call of AddProceduralDetail
    veg,        \* SpecVeg: one call of calculate_vegetation_density_alpine
    scan,       \* SpecScan: the pre-scan loop of main over the samples of a batch
    mask,       \* SpecMask: the row loop of generate_vegetation_mask
    \* Spec: the batch
    iOverallMinElevation,   \* the global elevation range
    iOverallMaxElevation,
    iNumFilesToConvert,
    opts,           \* numThreads, enableDetail, vegetation.enabled
    main,           \* position and locals of main / processFilesParallel / processFilesSequential
    fi,             \* FileInfo array, filled by the pre-scan
    threads,        \* pthread_t array of processFilesParallel
    worker,         \* one processFileWorker per file: position, buffers, registers
    outputMutex,    \* "free", "locked" or "destroyed"
    globalResult,
    filesProcessed

\* a computation that is not running
CalcIdle == [pc |-> "idle"]

batchVars == <<iOverallMinElevation, iOverallMaxElevation, iNumFilesToConvert, opts, main,
               fi, threads, worker, outputMutex,
               globalResult, filesProcessed>>

vars == <<decode, parse, run, detail, veg, scan, mask, batchVars>>

(***************************************************************************)
(* Program constants                                                       *)
(***************************************************************************)
MAX_HEIGHT == 6000
SRTM3 == 1201
SRTM1 == 3601
SRTM_UNKNOWN == -1
SRTM3_SIZE == SRTM3 * SRTM3 * 2
SRTM1_SIZE == SRTM1 * SRTM1 * 2
NODATA_VALUE_BE == -32768
NODATA_REPLACEMENT == 0

(***************************************************************************)
(* 16-bit integers.  A sample is stored in the file as two bytes; fread    *)
(* puts them into an int16_t in the byte order of the host.                *)
(***************************************************************************)
Byte == 0 .. 255

ToInt16(u) == IF u >= 32768 THEN u - 65536 ELSE u

ToUint16(v) == (v + 65536) % 65536

\* the int16_t the host holds after fread of the bytes b0, b1 (file order)
HostRead(b0, b1, hostLE) ==
    IF hostLE THEN ToInt16(b1 * 256 + b0) ELSE ToInt16(b0 * 256 + b1)

\* ntohs: swaps the two bytes on a little-endian host, identity otherwise
ntohs(u, hostLE) ==
    IF hostLE THEN (u % 256) * 256 + (u \div 256) ELSE u

isNoDataValue(value, srtmType) ==
    IF srtmType # SRTM3 /\ srtmType # SRTM1
    THEN FALSE
    ELSE value = NODATA_VALUE_BE

ClampNoUpperBound(hostValue) ==
    IF hostValue < 0 THEN 0 ELSE hostValue

\* step 3 of processElevationValue
ClampElevation(hostValue) ==
    IF hostValue < 0 THEN 0
    ELSE IF hostValue > MAX_HEIGHT THEN MAX_HEIGHT
    ELSE hostValue

\* returns the value and the updated *noDataCount
processElevationValue(rawValue, srtmType, noDataCount, hostLE) ==
    LET hostValue == IF srtmType = SRTM3 \/ srtmType = SRTM1
                     THEN ToInt16(ntohs(ToUint16(rawValue), hostLE))
                     ELSE rawValue
    IN  IF isNoDataValue(hostValue, srtmType)
        THEN [value |-> NODATA_REPLACEMENT, noDataCount |-> noDataCount + 1]
        ELSE [value |-> ClampElevation(hostValue), noDataCount |-> noDataCount]

(***************************************************************************)
(* Raster type detection of main's pre-scan.  A filename is a sequence of  *)
(* characters; sTmp is the 4-character field memcpy takes out of it.       *)
(***************************************************************************)
Digits == <<"0", "1", "2", "3", "4", "5", "6", "7", "8", "9">>

IsDigit(c) == \E d \in 1 .. 10 : Digits[d] = c

DigitVal(c) == (CHOOSE d \in 1 .. 10 : Digits[d] = c) - 1

RECURSIVE AtoiDigits(_, _, _)
AtoiDigits(s, i, acc) ==
    IF i > Len(s) \/ ~IsDigit(s[i]) THEN acc
    ELSE AtoiDigits(s, i + 1, acc * 10 + DigitVal(s[i]))

RECURSIVE AtoiSkipSpace(_, _)
AtoiSkipSpace(s, i) ==
    IF i <= Len(s) /\ s[i] = " " THEN AtoiSkipSpace(s, i + 1) ELSE i

\* C library atoi: leading blanks, an optional sign, then the leading digits
atoi(s) ==
    LET i == AtoiSkipSpace(s, 1)
    IN  IF i <= Len(s) /\ s[i] = "-" THEN 0 - AtoiDigits(s, i + 1, 0)
        ELSE IF i <= Len(s) /\ s[i] = "+" THEN AtoiDigits(s, i + 1, 0)
        ELSE AtoiDigits(s, i, 0)

\* memcpy(sTmp, &name[off], 4) with a 0-based offset
Field4(name, off) == SubSeq(name, off + 1, off + 4)

\* SIZE_MAX / b for a 32-bit size_t (2^32 - 1 = 2 * INT_MAX + 1), b >= 2
INT_MAX == 2147483647

SizeMaxDiv(b) == 2 * (INT_MAX \div b) + ((2 * (INT_MAX % b) + 1) \div b)

safe_multiply_size_t(a, b) ==
    IF a = 0 \/ b = 0 THEN [ok |-> TRUE, result |-> 0]
    ELSE IF b >= 2 /\ a > SizeMaxDiv(b) THEN [ok |-> FALSE, result |-> 0]
    ELSE [ok |-> TRUE, result |-> a * b]

WidthOffset == 5
HeightOffset == 10
MinNameLen == 15
MaxDimension == 65536

\* the two fields of the filename, or 0, 0 (lines 515-538)
ParseDimensions(name) ==
    IF Len(name) >= MinNameLen
    THEN LET parsedWidth == atoi(Field4(name, WidthOffset))
             parsedHeight == atoi(Field4(name, HeightOffset))
         IN  IF /\ parsedWidth > 0 /\ parsedWidth <= MaxDimension
                /\ parsedHeight > 0 /\ parsedHeight <= MaxDimension
             THEN [iWidth |-> parsedWidth, iHeight |-> parsedHeight,
                   srtmType |-> parsedWidth * parsedHeight]
             ELSE [iWidth |-> 0, iHeight |-> 0, srtmType |-> 0]
    ELSE [iWidth |-> 0, iHeight |-> 0, srtmType |-> 0]

\* srtmType, iWidth and iHeight of fi[i] after lines 500-567
ClassifyRaster(szFilename, ulFilesize) ==
    IF ulFilesize = SRTM3_SIZE
    THEN [srtmType |-> SRTM3, iWidth |-> SRTM3, iHeight |-> SRTM3]
    ELSE IF ulFilesize = SRTM1_SIZE
    THEN [srtmType |-> SRTM1, iWidth |-> SRTM1, iHeight |-> SRTM1]
    ELSE LET d == ParseDimensions(szFilename)
         IN  IF d.iWidth = 0 \/ d.iHeight = 0
             THEN [d EXCEPT !.srtmType = SRTM_UNKNOWN]
             ELSE LET expectedPixels == safe_multiply_size_t(d.iWidth, d.iHeight)
                      expectedSize == safe_multiply_size_t(expectedPixels.result, 2)
                  IN  IF ~expectedPixels.ok \/ ~expectedSize.ok
                      THEN [d EXCEPT !.srtmType = SRTM_UNKNOWN]
                      ELSE IF ulFilesize # expectedSize.result
                      THEN [d EXCEPT !.srtmType = SRTM_UNKNOWN]
                      ELSE d

(***************************************************************************)
(* Single-precision arithmetic of the tone mapping (IEEE 754 binary32,     *)
(* round to nearest even, as the SSE/AVX build computes it).  A float in    *)
(* [0, 1] is the pair m, k standing for m / 2^k with 2^23 <= m <= 2^24, or  *)
(* m = 0.  All intermediate integers stay below 2^31.                      *)
(***************************************************************************)
PowersOfTwo ==
    <<1, 2, 4, 8, 16, 32, 64, 128, 256, 512, 1024, 2048, 4096, 8192, 16384, 32768, 65536,
      131072, 262144, 524288, 1048576, 2097152, 4194304, 8388608, 16777216, 33554432,
      67108864, 134217728, 268435456, 536870912, 1073741824>>

\* 2^n, 0 <= n <= 30
Pow2(n) == PowersOfTwo[n + 1]

RECURSIVE BitLen(_)
BitLen(n) == IF n = 0 THEN 0 ELSE 1 + BitLen(n \div 2)

F32Zero == [m |-> 0, k |-> 0]
F32Half == [m |-> Pow2(23), k |-> 24]

RECURSIVE F32Scale(_, _, _)
F32Scale(a, b, s) == IF a >= b THEN [a |-> a, s |-> s] ELSE F32Scale(2 * a, b, s + 1)

RECURSIVE F32DivBits(_, _, _, _)
F32DivBits(r, b, m, n) ==
    IF n = 0 THEN [m |-> m, r |-> r]
    ELSE IF 2 * r >= b THEN F32DivBits(2 * r - b, b, 2 * m + 1, n - 1)
    ELSE F32DivBits(2 * r, b, 2 * m, n - 1)

\* (float)a / (float)b for integers 0 <= a <= b, 0 < b
F32Div(a, b) ==
    IF a = 0 THEN F32Zero
    ELSE LET sc == F32Scale(a, b, 0)
             d == F32DivBits(sc.a - b, b, 1, 23)
             up == 2 * d.r > b \/ (2 * d.r = b /\ d.m % 2 = 1)
         IN  [m |-> IF up THEN d.m + 1 ELSE d.m, k |-> sc.s + 23]

\* (integer type)(x * scale) for scale = 255.0f or 65535.0f: the product is
\* rounded to 24 significant bits, then truncated
F32MulTrunc(x, scale) ==
    IF x.m = 0 THEN 0
    ELSE LET U == (x.m \div 4096) * scale
             T == (x.m % 4096) * scale
             loRaw == (U % 256) * 4096 + T
             hi == U \div 256 + loRaw \div Pow2(20)
             lo == loRaw % Pow2(20)
             P == Pow2(BitLen(hi) - 4)
             r == lo % P
             up == 2 * r > P \/ (2 * r = P /\ (lo \div P) % 2 = 1)
             lo2 == lo - r + (IF up THEN P ELSE 0)
             hi2 == hi + lo2 \div Pow2(20)
         IN  hi2 \div Pow2(x.k - 20)

\* ApplyCurveMapping for CURVE_LINEAR and gamma = 1.0f (the default options):
\* the value, already in [0, 1], is returned unchanged
ApplyCurveMapping(normalizedValue) == normalizedValue

\* the batch before main runs (the other specifications leave it there)
BatchIdle ==
    /\ iOverallMinElevation = 0 /\ iOverallMaxElevation = 0
    /\ iNumFilesToConvert = 0
    /\ opts = [numThreads |-> 1, enableDetail |-> FALSE, vegetation |-> [enabled |-> FALSE]]
    /\ main = [pc |-> "idle"]
    /\ fi = <<>>
    /\ threads = <<>>
    /\ worker = <<>>
    /\ outputMutex = "free"
    /\ globalResult = 0
    /\ filesProcessed = 0

(***************************************************************************)
(* SpecDecode: processElevationValue on every 16-bit sample, for the SRTM  *)
(* types and a custom type, on a little- and a big-endian host.            *)
(***************************************************************************)
\* srtmType of a custom raster is iWidth * iHeight (main, line 536)
CustomType == 3 * 2

DecodeIdle == [pc |-> "idle"]

DecodeInit ==
    /\ parse = [pc |-> "idle"] /\ run = [pc |-> "idle"] /\ detail = CalcIdle /\ veg = CalcIdle /\ scan = CalcIdle /\ mask = CalcIdle /\ BatchIdle
    /\ \E b0 \in Byte, b1 \in Byte, le \in BOOLEAN, ty \in {SRTM3, SRTM1, CustomType} :
         decode = [pc |-> "call", b0 |-> b0, b1 |-> b1, hostLE |-> le,
                   rawValue |-> HostRead(b0, b1, le), srtmType |-> ty,
                   noDataCount |-> 0, ret |-> 0]

DecodeCall ==
    /\ decode.pc = "call"
    /\ LET r == processElevationValue(decode.rawValue, decode.srtmType,
                                      decode.noDataCount, decode.hostLE)
       IN  decode' = [decode EXCEPT !.pc = "ret", !.ret = r.value,
                                    !.noDataCount = r.noDataCount]
    /\ UNCHANGED <<parse, run, detail, veg, scan, mask, batchVars>>

SpecDecode == DecodeInit /\ [][DecodeCall]_vars

\* C8: whatever the raw 16-bit value and the raster type, the value returned
\* by processElevationValue lies in 0 .. 6000.
C8_DecodedInRange ==
    decode.pc = "ret" => (0 <= decode.ret /\ decode.ret <= MAX_HEIGHT)

\* a raw value above 6000 and a negative raw value of a custom raster, decoded
C8_WitnessClamped ==
    /\ decode.pc = "ret"
    /\ decode.srtmType = CustomType
    /\ decode.rawValue > MAX_HEIGHT
    /\ decode.ret = MAX_HEIGHT

(***************************************************************************)
(* SpecParse: the raster type detection applied to one input file.  The    *)
(* names are those of the pattern [N|S]DD[E|W]DDD_WWWWxHHHH.hgt and a few   *)
(* names of other shapes; the sizes are the SRTM sizes, the size the name  *)
(* announces, and sizes near it.                                           *)
(***************************************************************************)
HgtSuffix == <<".", "h", "g", "t">>

LonFields == { <<"0", "0", "4">>, <<"0", "0", "7">>, <<"0", "1", "2">> }

DimFields == { <<"1", "0", "0", "0">>, <<"2", "0", "0", "0">>,
               <<"0", "0", "0", "7">>, <<"0", "0", "1", "2">>,
               <<"0", "0", "0", "3">> }

PatternName(lon, w, h) ==
    <<"N", "4", "9", "E">> \o lon \o <<"_">> \o w \o <<"x">> \o h \o HgtSuffix

PatternNames == { PatternName(lon, w, h) : lon \in LonFields, w \in DimFields, h \in DimFields }

\* names that do not follow the pattern
OtherNames == { <<"N", "4", "8", "E", "0", "1", "1">> \o HgtSuffix,
                <<"t", "i", "l", "e", "_", "0", "0", "0", "4", "x", "0", "0", "0", "3">> \o HgtSuffix,
                <<"d", "e", "m", "-", "_", " ", "+", "1", "2", "x", " ", "-", "3", "0">> \o HgtSuffix }

RECURSIVE DecimalValue(_)
DecimalValue(field) ==
    IF field = <<>> THEN 0
    ELSE 10 * DecimalValue(SubSeq(field, 1, Len(field) - 1)) + DigitVal(field[Len(field)])

\* WWWW and HHHH of a name of the pattern (characters 8-11 and 13-16, 0-based)
AnnouncedWidth(name) == DecimalValue(SubSeq(name, 9, 12))
AnnouncedHeight(name) == DecimalValue(SubSeq(name, 14, 17))

ParseIdle == [pc |-> "idle"]

ParseSizes(name) ==
    {SRTM3_SIZE, SRTM1_SIZE, 24}
    \cup (IF name \in PatternNames
          THEN { AnnouncedWidth(name) * AnnouncedHeight(name) * 2,
                 AnnouncedWidth(name) * AnnouncedHeight(name) * 2 + 2 }
          ELSE {})
    \cup (LET d == ParseDimensions(name) IN {d.iWidth * d.iHeight * 2})

ParseInit ==
    /\ decode = DecodeIdle /\ run = [pc |-> "idle"] /\ detail = CalcIdle /\ veg = CalcIdle /\ scan = CalcIdle /\ mask = CalcIdle /\ BatchIdle
    /\ \E name \in PatternNames \cup OtherNames :
         \E size \in ParseSizes(name) :
             parse = [pc |-> "stat", szFilename |-> name, ulFilesize |-> size,
                      srtmType |-> 0, iWidth |-> 0, iHeight |-> 0]

ParseClassify ==
    /\ parse.pc = "stat"
    /\ LET c == ClassifyRaster(parse.szFilename, parse.ulFilesize)
       IN  parse' = [parse EXCEPT !.pc = "classified", !.srtmType = c.srtmType,
                                  !.iWidth = c.iWidth, !.iHeight = c.iHeight]
    /\ UNCHANGED <<decode, run, detail, veg, scan, mask, batchVars>>

SpecParse == ParseInit /\ [][ParseClassify]_vars

\* C6: a file named [N|S]DD[E|W]DDD_WWWWxHHHH.hgt whose length is
\* WWWW x HHHH x 2 bytes, not an SRTM size, is classified with iWidth = WWWW,
\* iHeight = HHHH and a type other than SRTM_UNKNOWN.
C6_PatternNameParsed ==
    ( /\ parse.pc = "classified"
      /\ parse.szFilename \in PatternNames
      /\ parse.ulFilesize = AnnouncedWidth(parse.szFilename) * AnnouncedHeight(parse.szFilename) * 2
      /\ parse.ulFilesize \notin {SRTM3_SIZE, SRTM1_SIZE} )
    => ( /\ parse.iWidth = AnnouncedWidth(parse.szFilename)
         /\ parse.iHeight = AnnouncedHeight(parse.szFilename)
         /\ parse.srtmType # SRTM_UNKNOWN )

(***************************************************************************)
(* Sample loops of main's pre-scan and of processFileWorker.               *)
(* bytes is the content of the file, one pair b0, b1 per sample.           *)
(***************************************************************************)
MinInit == 9999
MaxInit == 0

\* fread: the samples as the host holds them
ReadSamples(bytes, hostLE) ==
    [j \in 1 .. Len(bytes) |-> HostRead(bytes[j][1], bytes[j][2], hostLE)]

CountsAlways(value) == TRUE

\* line 635: only values other than the replacement value enter min/max
CountsForMinMax(value) == value # NODATA_REPLACEMENT

\* the loop of lines 629-642 from sample j on; acc holds iElevationData,
\* noDataCount, iCurrentMinElevation and iCurrentMaxElevation
RECURSIVE PreScanLoop(_, _, _, _, _)
PreScanLoop(raw, srtmType, hostLE, j, acc) ==
    IF j > Len(raw) THEN acc
    ELSE LET r == processElevationValue(raw[j], srtmType, acc.noDataCount, hostLE)
             lo == IF CountsForMinMax(r.value) /\ r.value < acc.iCurrentMinElevation
                   THEN r.value ELSE acc.iCurrentMinElevation
             hi == IF CountsForMinMax(r.value) /\ r.value > acc.iCurrentMaxElevation
                   THEN r.value ELSE acc.iCurrentMaxElevation
         IN  PreScanLoop(raw, srtmType, hostLE, j + 1,
                         [iElevationData |-> Append(acc.iElevationData, r.value),
                          noDataCount |-> r.noDataCount,
                          iCurrentMinElevation |-> lo,
                          iCurrentMaxElevation |-> hi])

\* lines 625-642
PreScanSamples(bytes, srtmType, hostLE) ==
    PreScanLoop(ReadSamples(bytes, hostLE), srtmType, hostLE, 1,
                [iElevationData |-> <<>>, noDataCount |-> 0,
                 iCurrentMinElevation |-> MinInit, iCurrentMaxElevation |-> MaxInit])

EffectiveRangeUnchecked(minHeight, maxHeight, overallMin, overallMax) ==
    [min |-> IF minHeight # -1 THEN minHeight ELSE overallMin,
     max |-> IF maxHeight # -1 THEN maxHeight ELSE overallMax]

\* lines 994-1002
EffectiveRange(minHeight, maxHeight, overallMin, overallMax) ==
    LET lo == IF minHeight # -1 THEN minHeight ELSE overallMin
        hi == IF maxHeight # -1 THEN maxHeight ELSE overallMax
    IN  IF lo >= hi THEN [min |-> overallMin, max |-> overallMax]
        ELSE [min |-> lo, max |-> hi]

NormalizeFallbackZero(elevation, effectiveMinHeight, effectiveMaxHeight) ==
    IF effectiveMaxHeight > effectiveMinHeight
    THEN LET c1 == IF elevation < effectiveMinHeight THEN effectiveMinHeight ELSE elevation
             c2 == IF c1 > effectiveMaxHeight THEN effectiveMaxHeight ELSE c1
         IN  F32Div(c2 - effectiveMinHeight, effectiveMaxHeight - effectiveMinHeight)
    ELSE F32Zero

\* lines 1022-1034: normalizedValue
NormalizeElevation(elevation, effectiveMinHeight, effectiveMaxHeight) ==
    IF effectiveMaxHeight > effectiveMinHeight
    THEN LET c1 == IF elevation < effectiveMinHeight THEN effectiveMinHeight ELSE elevation
             c2 == IF c1 > effectiveMaxHeight THEN effectiveMaxHeight ELSE c1
         IN  F32Div(c2 - effectiveMinHeight, effectiveMaxHeight - effectiveMinHeight)
    ELSE F32Half

NoAlpha == -1

\* lines 1019 and 1039-1065: one output pixel; y is the gray value (the r, g
\* and b channels of the 8-bit formats), a the alpha channel if there is one
MakePixel(elevation, range, po) ==
    LET isNoDataPixel == (elevation = NODATA_REPLACEMENT)
        curvedValue == ApplyCurveMapping(NormalizeElevation(elevation, range.min, range.max))
    IN  IF po.output16bit /\ po.alphaNoData
        THEN [y |-> F32MulTrunc(curvedValue, 65535), a |-> IF isNoDataPixel THEN 0 ELSE 65535]
        ELSE IF po.output16bit
        THEN [y |-> F32MulTrunc(curvedValue, 65535), a |-> NoAlpha]
        ELSE IF po.alphaNoData
        THEN [y |-> F32MulTrunc(curvedValue, 255), a |-> IF isNoDataPixel THEN 0 ELSE 255]
        ELSE [y |-> F32MulTrunc(curvedValue, 255), a |-> NoAlpha]

\* the loop of lines 1008-1066 with enableDetail = 0, from sample m on
RECURSIVE RenderLoop(_, _, _, _, _, _, _)
RenderLoop(raw, srtmType, hostLE, range, po, m, acc) ==
    IF m > Len(raw) THEN acc
    ELSE LET r == processElevationValue(raw[m], srtmType, 0, hostLE)
         IN  RenderLoop(raw, srtmType, hostLE, range, po, m + 1,
                        [iElevationData |-> Append(acc.iElevationData, r.value),
                         totalNoDataCount |-> acc.totalNoDataCount + r.noDataCount,
                         pixels |-> Append(acc.pixels, MakePixel(r.value, range, po))])

(***************************************************************************)
(* SpecData: a single-file run with detail generation disabled (-d),       *)
(* CURVE_LINEAR and gamma 1.0: the pre-scan of main, then the pixel         *)
(* conversion of processFileWorker.  The raster is scaled down to at most   *)
(* MaxSamples samples; the loops treat every sample alike.                  *)
(***************************************************************************)
MaxSamples == 2

\* 0x8000 (NoData), 0, 500, 100, -1 and 7000 as big-endian samples
SampleBytes == { <<128, 0>>, <<0, 0>>, <<1, 244>>, <<0, 100>>, <<255, 255>>, <<27, 88>> }

SampleFiles == UNION { [1 .. n -> SampleBytes] : n \in 1 .. MaxSamples }

\* -m / -M: no override, a valid one, an inverted one, a one-sided one
HeightOverrides == { <<-1, -1>>, <<0, 1000>>, <<1000, 500>>, <<-1, 300>> }

DataInit ==
    /\ decode = DecodeIdle /\ parse = ParseIdle /\ detail = CalcIdle /\ veg = CalcIdle /\ scan = CalcIdle /\ mask = CalcIdle /\ BatchIdle
    /\ \E bytes \in SampleFiles, le \in BOOLEAN, a \in BOOLEAN, b16 \in BOOLEAN,
          ov \in HeightOverrides :
        \E ty \in {SRTM3, SRTM1, Len(bytes)} :
            run = [pc |-> "prescan", bytes |-> bytes, hostLE |-> le,
                   opts |-> [enableDetail |-> FALSE, alphaNoData |-> a, output16bit |-> b16,
                             minHeight |-> ov[1], maxHeight |-> ov[2]],
                   fi |-> [srtmType |-> ty, ulFilesize |-> 2 * Len(bytes),
                           iMinElevation |-> 0, iMaxElevation |-> 0, noDataCount |-> 0],
                   iOverallMinElevation |-> MinInit, iOverallMaxElevation |-> MaxInit,
                   iCurrentMinElevation |-> MinInit, iCurrentMaxElevation |-> MaxInit,
                   effectiveMinHeight |-> 0, effectiveMaxHeight |-> 0,
                   iElevationData |-> <<>>, pixels |-> <<>>]

\* main, lines 605-642: the samples are read and decoded in place
DataPreScan ==
    /\ run.pc = "prescan"
    /\ LET r == PreScanSamples(run.bytes, run.fi.srtmType, run.hostLE)
       IN  run' = [run EXCEPT !.pc = "scanned",
                              !.fi.noDataCount = r.noDataCount,
                              !.iCurrentMinElevation = r.iCurrentMinElevation,
                              !.iCurrentMaxElevation = r.iCurrentMaxElevation,
                              !.iElevationData = r.iElevationData]
    /\ UNCHANGED <<decode, parse, detail, veg, scan, mask, batchVars>>

\* main, lines 644-668: the overall range is updated and the buffer freed
DataMerge ==
    /\ run.pc = "scanned"
    /\ run' = [run EXCEPT !.pc = "merged",
                          !.iOverallMinElevation =
                              IF run.iCurrentMinElevation < @ THEN run.iCurrentMinElevation ELSE @,
                          !.iOverallMaxElevation =
                              IF run.iCurrentMaxElevation > @ THEN run.iCurrentMaxElevation ELSE @,
                          !.iElevationData = <<>>]
    /\ UNCHANGED <<decode, parse, detail, veg, scan, mask, batchVars>>

\* processFileWorker, lines 835-1069 with enableDetail = 0
DataRender ==
    /\ run.pc = "merged"
    /\ LET range == EffectiveRange(run.opts.minHeight, run.opts.maxHeight,
                                   run.iOverallMinElevation, run.iOverallMaxElevation)
           r == RenderLoop(ReadSamples(run.bytes, run.hostLE), run.fi.srtmType, run.hostLE,
                           range, run.opts, 1,
                           [iElevationData |-> <<>>, totalNoDataCount |-> 0, pixels |-> <<>>])
       IN  run' = [run EXCEPT !.pc = "rendered",
                              !.effectiveMinHeight = range.min,
                              !.effectiveMaxHeight = range.max,
                              !.iElevationData = r.iElevationData,
                              !.pixels = r.pixels,
                              !.fi.noDataCount = @ + r.totalNoDataCount]
    /\ UNCHANGED <<decode, parse, detail, veg, scan, mask, batchVars>>

DataNext == DataPreScan \/ DataMerge \/ DataRender

SpecData == DataInit /\ [][DataNext]_vars

IsSrtm(srtmType) == srtmType = SRTM3 \/ srtmType = SRTM1

\* the positions of the file that hold the big-endian sentinel 0x8000
SentinelAt == { j \in 1 .. Len(run.bytes) : run.bytes[j] = <<128, 0>> }

\* C7: in an SRTM raster every sample 0x8000 decodes to 0, adds one to the
\* NoData counter, and leaves the file's min/max as they are without it.
C7_SentinelDecoding ==
    (run.pc = "scanned" /\ IsSrtm(run.fi.srtmType)) =>
        LET valid == SelectSeq(run.bytes, LAMBDA s : s # <<128, 0>>)
            without == PreScanSamples(valid, run.fi.srtmType, run.hostLE)
        IN  /\ \A j \in SentinelAt : run.iElevationData[j] = 0
            /\ run.fi.noDataCount = Cardinality(SentinelAt)
            /\ run.iCurrentMinElevation = without.iCurrentMinElevation
            /\ run.iCurrentMaxElevation = without.iCurrentMaxElevation

C7_WitnessSentinel ==
    /\ run.pc = "scanned"
    /\ IsSrtm(run.fi.srtmType)
    /\ SentinelAt # {}
    /\ run.fi.noDataCount > 0
    /\ run.iCurrentMinElevation = 500

\* C9: with alpha-for-NoData a pixel has alpha 0 exactly when its sample was
\* the NoData sentinel; every valid sample gives a fully opaque pixel.
C9_AlphaIffNoData ==
    (run.pc = "rendered" /\ run.opts.alphaNoData) =>
        \A m \in 1 .. Len(run.bytes) :
            (run.pixels[m].a = 0) <=> (IsSrtm(run.fi.srtmType) /\ m \in SentinelAt)

\* a single-file run of a raster whose samples all hold one valid elevation
\* e > 0, without override, converted to 8 bit
ConstantRaster(e) ==
    /\ run.pc = "rendered"
    /\ ~run.opts.output16bit
    /\ run.opts.minHeight = -1 /\ run.opts.maxHeight = -1
    /\ e > 0
    /\ run.fi.noDataCount = 0
    /\ \A m \in 1 .. Len(run.bytes) : run.iElevationData[m] = e

\* C10 as stated: such a raster gives the gray value 255 at every pixel.
C10_ConstantRasterWhite ==
    \A e \in 1 .. MAX_HEIGHT :
        ConstantRaster(e) => \A m \in 1 .. Len(run.bytes) : run.pixels[m].y = 255

\* C10 amended: the range of such a raster is empty (min = max = e), the
\* normalized value falls back to 0.5, and every pixel has gray value 127.
C10_ConstantRasterMidGray ==
    \A e \in 1 .. MAX_HEIGHT :
        ConstantRaster(e) => \A m \in 1 .. Len(run.bytes) : run.pixels[m].y = 127

C10_WitnessConstant500 ==
    /\ ConstantRaster(500)
    /\ Len(run.bytes) = MaxSamples
    /\ IsSrtm(run.fi.srtmType)

\* C13: the effective range of the tone mapping is the override where one is
\* given (a value other than -1) and the global range otherwise; when that
\* leaves min >= max, both bounds are the global min and max.
C13_EffectiveRange ==
    run.pc = "rendered" =>
      LET wantedMin == IF run.opts.minHeight = -1 THEN run.iOverallMinElevation
                       ELSE run.opts.minHeight
          wantedMax == IF run.opts.maxHeight = -1 THEN run.iOverallMaxElevation
                       ELSE run.opts.maxHeight
      IN  IF wantedMin < wantedMax
          THEN /\ run.effectiveMinHeight = wantedMin
               /\ run.effectiveMaxHeight = wantedMax
          ELSE /\ run.effectiveMinHeight = run.iOverallMinElevation
               /\ run.effectiveMaxHeight = run.iOverallMaxElevation

\* only a maximum of 300 is given, below the global minimum 500: the range
\* falls back to the global one
C13_WitnessFallback ==
    /\ run.pc = "rendered"
    /\ run.opts.minHeight = -1 /\ run.opts.maxHeight = 300
    /\ run.iOverallMinElevation = 500 /\ run.iOverallMaxElevation = MAX_HEIGHT
    /\ run.effectiveMinHeight = 500 /\ run.effectiveMaxHeight = MAX_HEIGHT

\* lines 644-647
MergeRange(current, overall) ==
    [min |-> IF current.min < overall.min THEN current.min ELSE overall.min,
     max |-> IF current.max > overall.max THEN current.max ELSE overall.max]

(***************************************************************************)
(* SpecScan: the pre-scan loop of main over the samples of every file of   *)
(* a batch, with the global elevation range it leaves.  The rasters are    *)
(* those of SpecData.                                                       *)
(***************************************************************************)
MaxScanFiles == 2

\* an SRTM3 batch, an SRTM1 batch, or rasters of a custom size
ScanTypes == {SRTM3, SRTM1, 0}

ScanTypeOf(kind, bytes) == IF kind = 0 THEN Len(bytes) ELSE kind

\* lines 463-466
ScanInit ==
    /\ decode = DecodeIdle /\ parse = ParseIdle /\ run = [pc |-> "idle"]
    /\ detail = CalcIdle /\ veg = CalcIdle /\ mask = CalcIdle /\ BatchIdle
    /\ \E n \in 1 .. MaxScanFiles :
         \E files \in [1 .. n -> SampleFiles], le \in BOOLEAN, kind \in ScanTypes :
            scan = [pc |-> "samples", files |-> files, hostLE |-> le, i |-> 1,
                    srtmType |-> [k \in 1 .. n |-> ScanTypeOf(kind, files[k])],
                    iOverallMinElevation |-> MinInit, iOverallMaxElevation |-> MaxInit,
                    iCurrentMinElevation |-> MinInit, iCurrentMaxElevation |-> MaxInit,
                    noDataCount |-> 0]

\* lines 625-642 for file i
ScanSamples ==
    /\ scan.pc = "samples"
    /\ LET r == PreScanSamples(scan.files[scan.i], scan.srtmType[scan.i], scan.hostLE)
       IN  scan' = [scan EXCEPT !.pc = "merge",
                                !.noDataCount = r.noDataCount,
                                !.iCurrentMinElevation = r.iCurrentMinElevation,
                                !.iCurrentMaxElevation = r.iCurrentMaxElevation]
    /\ UNCHANGED <<decode, parse, run, detail, veg, mask, batchVars>>

\* lines 644-669 for file i, and the step to the next file
ScanMerge ==
    /\ scan.pc = "merge"
    /\ LET merged == MergeRange([min |-> scan.iCurrentMinElevation,
                                 max |-> scan.iCurrentMaxElevation],
                                [min |-> scan.iOverallMinElevation,
                                 max |-> scan.iOverallMaxElevation])
       IN  scan' = [scan EXCEPT !.iOverallMinElevation = merged.min,
                                !.iOverallMaxElevation = merged.max,
                                !.i = @ + 1,
                                !.pc = IF scan.i < Len(scan.files) THEN "samples"
                                       ELSE "done"]
    /\ UNCHANGED <<decode, parse, run, detail, veg, mask, batchVars>>

ScanNext == ScanSamples \/ ScanMerge

SpecScan == ScanInit /\ [][ScanNext]_vars

\* the decoded values of the samples of the batch that are not NoData
ValidDecoded ==
    UNION { LET raw == ReadSamples(scan.files[k], scan.hostLE)
            IN  { processElevationValue(raw[j], scan.srtmType[k], 0, scan.hostLE).value :
                    j \in { j \in 1 .. Len(raw) :
                              ~isNoDataValue(
                                 IF IsSrtm(scan.srtmType[k])
                                 THEN ToInt16(ntohs(ToUint16(raw[j]), scan.hostLE))
                                 ELSE raw[j], scan.srtmType[k]) } }
          : k \in 1 .. Len(scan.files) }

SetMin(S) == CHOOSE x \in S : \A y \in S : x <= y

SetMax(S) == CHOOSE x \in S : \A y \in S : x >= y

\* C20: after the pre-scan of all files the global minimum and maximum are
\* the minimum and maximum of the decoded values of all samples of the batch
\* that are not NoData.
C20_RangeOfValidSamples ==
    (scan.pc = "done" /\ ValidDecoded # {}) =>
        /\ scan.iOverallMinElevation = SetMin(ValidDecoded)
        /\ scan.iOverallMaxElevation = SetMax(ValidDecoded)

(***************************************************************************)
(* Spec: main (pre-scan of every file, then the batch), the coordinator    *)
(* processFilesParallel / processFilesSequential, and one                  *)
(* processFileWorker per file.  What the environment decides (whether a    *)
(* file opens, a read is complete, an allocation or pthread_create         *)
(* succeeds) is chosen when the call is made.  Sample values are left to   *)
(* SpecData.                                                                *)
(***************************************************************************)
MaxFiles == 3
MaxThreads == 2
DEFAULT_SCALE_FACTOR == 3

\* the pixel loop of a worker is followed for this many samples
MaxPixels == 2

Files == 0 .. iNumFilesToConvert - 1

\* the files a batch is made of: an SRTM3 tile, a custom raster whose name
\* carries its size at the offsets main reads, the same name with two more
\* bytes, and a name of the pattern [N|S]DD[E|W]DDD_WWWWxHHHH.hgt.
\* iCurrentMinElevation and iCurrentMaxElevation are what the sample loop of
\* the pre-scan finds in the file.
BatchCatalog ==
    { [szFilename |-> <<"N", "4", "8", "E", "0", "1", "1">> \o HgtSuffix,
       ulFilesize |-> SRTM3_SIZE,
       iCurrentMinElevation |-> 200, iCurrentMaxElevation |-> 900],
      [szFilename |-> <<"t", "i", "l", "e", "_", "0", "0", "0", "4", "x", "0", "0", "0", "3">> \o HgtSuffix,
       ulFilesize |-> 24,
       iCurrentMinElevation |-> 50, iCurrentMaxElevation |-> 300],
      [szFilename |-> <<"t", "i", "l", "e", "_", "0", "0", "0", "4", "x", "0", "0", "0", "3">> \o HgtSuffix,
       ulFilesize |-> 26,
       iCurrentMinElevation |-> 50, iCurrentMaxElevation |-> 300],
      [szFilename |-> PatternName(<<"0", "1", "2">>, <<"0", "0", "0", "7">>, <<"0", "0", "0", "3">>),
       ulFilesize |-> 42,
       iCurrentMinElevation |-> 400, iCurrentMaxElevation |-> MAX_HEIGHT] }

NoFile == [szFilename |-> <<>>, ulFilesize |-> 0, srtmType |-> 0, iWidth |-> 0, iHeight |-> 0]

NoWorker == [pc |-> "idle", InFile |-> FALSE, iElevationData |-> FALSE, PixelData |-> FALSE,
             failedAt |-> "none", reg |-> 0, wave |-> -1, joined |-> FALSE,
             detailedData |-> "unset", written |-> FALSE, writeFailed |-> FALSE,
             stages |-> <<>>, m |-> 0, effectiveMinHeight |-> -1, effectiveMaxHeight |-> -1,
             launches |-> 0, counted |-> FALSE, unlockedDiag |-> FALSE]

NoThread == [state |-> "uninit", file |-> -1]

Init ==
    /\ decode = DecodeIdle /\ parse = ParseIdle /\ run = [pc |-> "idle"]
    /\ detail = CalcIdle /\ veg = CalcIdle /\ scan = CalcIdle /\ mask = CalcIdle
    /\ iOverallMinElevation = MinInit /\ iOverallMaxElevation = MaxInit
    /\ iNumFilesToConvert \in 1 .. MaxFiles
    /\ opts \in [numThreads : 1 .. MaxThreads, enableDetail : BOOLEAN,
                 vegetation : [enabled : BOOLEAN]]
    /\ main = [pc |-> "prescan", i |-> 0, k |-> 0, fileIndex |-> 0, threadsToStart |-> 0,
               t |-> 0, created |-> 0, actualThreads |-> 0, mode |-> "none",
               failure |-> "none", processingResult |-> 0, exitCode |-> -1]
    /\ fi = [f \in Files |-> NoFile]
    /\ threads = <<>>
    /\ worker = [f \in Files |-> NoWorker]
    /\ outputMutex = "free"
    /\ globalResult = 0
    /\ filesProcessed = 0

PreScanContinues(srtmType) == FALSE

\* line 569: an unknown type ends the run
PreScanAborts(srtmType) == srtmType = SRTM_UNKNOWN

\* main returns 1 from inside the pre-scan loop
AbortRun(why) == [main EXCEPT !.pc = "exit", !.failure = why, !.exitCode = 1]

PreScanNextEarly(i, n) == "dispatch"

\* lines 468 and 672: the loop goes on to the next file, and the batch is
\* processed after the last one
PreScanNext(i, n) == IF i + 1 < n THEN "prescan" ELSE "dispatch"

\* main, lines 468-669, for file i; after the last file, line 672
MainPreScanFile ==
    /\ main.pc = "prescan"
    /\ \E file \in BatchCatalog, fault \in {"none", "open", "alloc", "read"} :
         LET c == ClassifyRaster(file.szFilename, file.ulFilesize)
             scanned == [szFilename |-> file.szFilename, ulFilesize |-> file.ulFilesize,
                         srtmType |-> c.srtmType, iWidth |-> c.iWidth, iHeight |-> c.iHeight]
             merged == MergeRange([min |-> file.iCurrentMinElevation,
                                   max |-> file.iCurrentMaxElevation],
                                  [min |-> iOverallMinElevation, max |-> iOverallMaxElevation])
         IN  IF fault = "open"
             THEN /\ main' = AbortRun("open")
                  /\ fi' = [fi EXCEPT ![main.i].szFilename = file.szFilename]
                  /\ UNCHANGED <<iOverallMinElevation, iOverallMaxElevation>>
             ELSE IF PreScanAborts(c.srtmType)
             THEN /\ main' = AbortRun("unknown")
                  /\ fi' = [fi EXCEPT ![main.i] = scanned]
                  /\ UNCHANGED <<iOverallMinElevation, iOverallMaxElevation>>
             ELSE IF fault # "none"
             THEN /\ main' = AbortRun(fault)
                  /\ fi' = [fi EXCEPT ![main.i] = scanned]
                  /\ UNCHANGED <<iOverallMinElevation, iOverallMaxElevation>>
             ELSE /\ fi' = [fi EXCEPT ![main.i] = scanned]
                  /\ iOverallMinElevation' = merged.min
                  /\ iOverallMaxElevation' = merged.max
                  /\ main' = [main EXCEPT !.i = @ + 1,
                                          !.pc = PreScanNext(main.i, iNumFilesToConvert)]
    /\ UNCHANGED <<decode, parse, run, detail, veg, scan, mask,
                   iNumFilesToConvert, opts, threads, worker,
                   outputMutex, globalResult, filesProcessed>>

UseSequentialNever(n, numThreads) == FALSE

\* line 1145
UseSequential(n, numThreads) == n <= 1 \/ numThreads <= 1

\* line 1158
ActualThreads(numThreads, n) == IF numThreads > n THEN n ELSE numThreads

\* line 1196
ThreadsToStart(n, fileIndex, actualThreads) ==
    IF n - fileIndex > actualThreads THEN actualThreads ELSE n - fileIndex

WaveContinuesAfterFailure(fileIndex, n, result) == fileIndex < n

\* line 1194
WaveContinues(fileIndex, n, result) == fileIndex < n /\ result = 0

\* processFilesParallel, lines 1145-1193
Dispatch ==
    /\ main.pc = "dispatch"
    /\ IF UseSequential(iNumFilesToConvert, opts.numThreads)
       THEN /\ main' = [main EXCEPT !.pc = "seq", !.mode = "sequential", !.k = 0]
            /\ UNCHANGED <<threads, globalResult, filesProcessed>>
       ELSE \E allocated \in BOOLEAN :
              IF allocated
              THEN /\ main' = [main EXCEPT
                                  !.pc = "waveCheck", !.mode = "parallel", !.fileIndex = 0,
                                  !.actualThreads = ActualThreads(opts.numThreads, iNumFilesToConvert)]
                   /\ threads' = [t \in 0 .. ActualThreads(opts.numThreads, iNumFilesToConvert) - 1
                                    |-> NoThread]
                   /\ globalResult' = 0
                   /\ filesProcessed' = 0
              ELSE /\ main' = [main EXCEPT !.pc = "finish", !.mode = "parallel",
                                           !.failure = "threadalloc", !.processingResult = 1]
                   /\ UNCHANGED <<threads, globalResult, filesProcessed>>
    /\ UNCHANGED <<decode, parse, run, detail, veg, scan, mask, iOverallMinElevation, iOverallMaxElevation,
                   iNumFilesToConvert, opts, fi, worker, outputMutex>>

\* lines 1194-1196: the loop condition and the size of the next wave
WaveCheck ==
    /\ main.pc = "waveCheck"
    /\ IF WaveContinues(main.fileIndex, iNumFilesToConvert, globalResult)
       THEN main' = [main EXCEPT !.pc = "create", !.t = 0, !.created = 0,
                                 !.threadsToStart = ThreadsToStart(iNumFilesToConvert,
                                                       main.fileIndex, main.actualThreads)]
       ELSE main' = [main EXCEPT !.pc = "cleanup"]
    /\ UNCHANGED <<decode, parse, run, detail, veg, scan, mask, iOverallMinElevation, iOverallMaxElevation,
                   iNumFilesToConvert, opts, fi, threads, worker,
                   outputMutex, globalResult, filesProcessed>>

FileOfThreadShared(fileIndex, t) == fileIndex

\* line 1201: &threadData[fileIndex + t]
FileOfThread(fileIndex, t) == fileIndex + t

\* a worker is started for file f (once more, if it was started before)
Started(f, wave) ==
    [NoWorker EXCEPT !.pc = "start", !.wave = wave, !.launches = worker[f].launches + 1]

\* lines 1199-1207: one pass of the loop that starts the threads
CreateThread ==
    /\ main.pc = "create"
    /\ IF main.t < main.threadsToStart
       THEN \E created \in BOOLEAN :
              IF created
              THEN /\ threads' = [threads EXCEPT ![main.t] =
                                     [state |-> "live",
                                      file |-> FileOfThread(main.fileIndex, main.t)]]
                   /\ worker' = [worker EXCEPT ![FileOfThread(main.fileIndex, main.t)] =
                                     Started(FileOfThread(main.fileIndex, main.t),
                                             main.fileIndex)]
                   /\ main' = [main EXCEPT !.t = @ + 1, !.created = @ + 1]
                   /\ UNCHANGED globalResult
              ELSE /\ globalResult' = 1
                   /\ main' = [main EXCEPT !.pc = "join", !.t = 0, !.failure = "create"]
                   /\ UNCHANGED <<threads, worker>>
       ELSE /\ main' = [main EXCEPT !.pc = "join", !.t = 0]
            /\ UNCHANGED <<threads, worker, globalResult>>
    /\ UNCHANGED <<decode, parse, run, detail, veg, scan, mask, iOverallMinElevation, iOverallMaxElevation,
                   iNumFilesToConvert, opts, fi, outputMutex, filesProcessed>>

JoinWithoutWaiting(w) == TRUE

\* pthread_join returns once the thread has terminated
JoinReady(w) == w.pc = "ret"

\* lines 1210-1215: one pass of the loop that joins threads[0 .. threadsToStart-1].
\* A handle that this wave did not create is uninitialised or belongs to a
\* thread already joined: joining it is undefined, and returns, kills the
\* process or never returns.
JoinThread ==
    /\ main.pc = "join"
    /\ IF main.t < main.threadsToStart
       THEN IF main.t < main.created
            THEN /\ JoinReady(worker[threads[main.t].file])
                 /\ threads' = [threads EXCEPT ![main.t].state = "joined"]
                 /\ worker' = [worker EXCEPT ![threads[main.t].file].joined = TRUE]
                 /\ main' = [main EXCEPT !.t = @ + 1]
            ELSE /\ \E outcome \in {"join", "crashed", "hung"} :
                      main' = [main EXCEPT !.t = IF outcome = "join" THEN @ + 1 ELSE @,
                                           !.pc = outcome]
                 /\ UNCHANGED <<threads, worker>>
       ELSE /\ main' = [main EXCEPT !.pc = "waveCheck",
                                    !.fileIndex = @ + main.threadsToStart]
            /\ UNCHANGED <<threads, worker>>
    /\ UNCHANGED <<decode, parse, run, detail, veg, scan, mask, iOverallMinElevation, iOverallMaxElevation,
                   iNumFilesToConvert, opts, fi, outputMutex,
                   globalResult, filesProcessed>>

\* lines 1219-1229
Cleanup ==
    /\ main.pc = "cleanup"
    /\ outputMutex' = "destroyed"
    /\ main' = [main EXCEPT !.pc = "finish", !.processingResult = globalResult]
    /\ UNCHANGED <<decode, parse, run, detail, veg, scan, mask, iOverallMinElevation, iOverallMaxElevation,
                   iNumFilesToConvert, opts, fi, threads, worker,
                   globalResult, filesProcessed>>

\* processFilesSequential, lines 1241-1256 and 1266: the worker of file k is
\* called in the thread of main, with a result, a mutex and a counter of its
\* own (held here by globalResult, outputMutex and filesProcessed)
SeqCall ==
    /\ main.pc = "seq"
    /\ IF main.k < iNumFilesToConvert
       THEN /\ worker' = [worker EXCEPT ![main.k] = Started(main.k, main.k)]
            /\ globalResult' = 0
            /\ outputMutex' = "free"
            /\ filesProcessed' = main.k
            /\ main' = [main EXCEPT !.pc = "seqWait"]
       ELSE /\ main' = [main EXCEPT !.pc = "finish", !.processingResult = 0]
            /\ UNCHANGED <<worker, globalResult, outputMutex, filesProcessed>>
    /\ UNCHANGED <<decode, parse, run, detail, veg, scan, mask, iOverallMinElevation, iOverallMaxElevation,
                   iNumFilesToConvert, opts, fi, threads>>

\* lines 1256-1264: the call returns
SeqReturn ==
    /\ main.pc = "seqWait"
    /\ worker[main.k].pc = "ret"
    /\ worker' = [worker EXCEPT ![main.k].joined = TRUE]
    /\ outputMutex' = "destroyed"
    /\ IF globalResult # 0
       THEN main' = [main EXCEPT !.pc = "finish", !.processingResult = globalResult]
       ELSE main' = [main EXCEPT !.pc = "seq", !.k = @ + 1]
    /\ UNCHANGED <<decode, parse, run, detail, veg, scan, mask, iOverallMinElevation, iOverallMaxElevation,
                   iNumFilesToConvert, opts, fi, threads,
                   globalResult, filesProcessed>>

\* main, lines 672-703
Finish ==
    /\ main.pc = "finish"
    /\ main' = [main EXCEPT !.pc = "exit",
                            !.exitCode = IF main.processingResult # 0
                                         THEN main.processingResult ELSE 0]
    /\ UNCHANGED <<decode, parse, run, detail, veg, scan, mask, iOverallMinElevation, iOverallMaxElevation,
                   iNumFilesToConvert, opts, fi, threads, worker,
                   outputMutex, globalResult, filesProcessed>>

(***************************************************************************)
(* processFileWorker for file f.  pthread_mutex_lock and the section it    *)
(* opens are separate steps; the steps between two sections touch only     *)
(* what the worker owns.                                                    *)
(***************************************************************************)
MutexIgnored(m) == TRUE

\* pthread_mutex_lock returns once no thread holds the mutex
MutexAvailable(m) == m = "free"

\* the positions at which the worker calls pthread_mutex_lock, and the
\* section each call opens (lines 805, 816-982, 859, 894, 904, 1075, 1131)
LockThen ==
    [start |-> "startLog", err |-> "errLog", nodata |-> "nodataLog",
     enhanced |-> "enhancedLog", warn |-> "warnLog", write |-> "writing",
     count |-> "countRead"]

StepTo(f, pc) == [worker EXCEPT ![f].pc = pc]

\* the stages a worker has entered, in the order it entered them
Enter(stages, stage) ==
    IF stages # <<>> /\ stages[Len(stages)] = stage THEN stages ELSE Append(stages, stage)

Fail(f, why) == [worker EXCEPT ![f].pc = "err", ![f].failedAt = why]

\* the worker of f has written a line to stderr in a callee that takes no lock
\* (AddProceduralDetail, lines 1505-1519; safe_malloc_pixels, lines 248-278)
\* at a position where the worker does not hold the output mutex
PrintsUnlocked(ws, f) == [ws EXCEPT ![f].unlockedDiag = TRUE]

WLock(f) ==
    /\ worker[f].pc \in DOMAIN LockThen
    /\ MutexAvailable(outputMutex)
    /\ outputMutex' = "locked"
    /\ worker' = StepTo(f, LockThen[worker[f].pc])
    /\ UNCHANGED <<decode, parse, run, detail, veg, scan, mask, iOverallMinElevation, iOverallMaxElevation,
                   iNumFilesToConvert, opts, main, fi, threads,
                   globalResult, filesProcessed>>

\* lines 806-811
WStartLog(f) ==
    /\ worker[f].pc = "startLog"
    /\ outputMutex' = "free"
    /\ worker' = StepTo(f, "open")
    /\ UNCHANGED <<decode, parse, run, detail, veg, scan, mask, iOverallMinElevation, iOverallMaxElevation,
                   iNumFilesToConvert, opts, main, fi, threads,
                   globalResult, filesProcessed>>

\* line 814: fopen
WOpen(f) ==
    /\ worker[f].pc = "open"
    /\ \E opened \in BOOLEAN :
         worker' = IF opened THEN [worker EXCEPT ![f].pc = "alloc", ![f].InFile = TRUE]
                   ELSE Fail(f, "open")
    /\ UNCHANGED <<decode, parse, run, detail, veg, scan, mask, iOverallMinElevation, iOverallMaxElevation,
                   iNumFilesToConvert, opts, main, fi, threads,
                   outputMutex, globalResult, filesProcessed>>

\* line 824: malloc of the elevation block
WAlloc(f) ==
    /\ worker[f].pc = "alloc"
    /\ \E allocated \in BOOLEAN :
         worker' = IF allocated
                   THEN [worker EXCEPT ![f].pc = "read", ![f].iElevationData = TRUE]
                   ELSE Fail(f, "alloc")
    /\ UNCHANGED <<decode, parse, run, detail, veg, scan, mask, iOverallMinElevation, iOverallMaxElevation,
                   iNumFilesToConvert, opts, main, fi, threads,
                   outputMutex, globalResult, filesProcessed>>

\* lines 835-849: fread, fclose
WRead(f) ==
    /\ worker[f].pc = "read"
    /\ \E complete \in BOOLEAN :
         worker' = IF complete
                   THEN [worker EXCEPT ![f].InFile = FALSE,
                                       ![f].pc = IF opts.enableDetail THEN "decode" ELSE "pixcount"]
                   ELSE Fail(f, "read")
    /\ UNCHANGED <<decode, parse, run, detail, veg, scan, mask, iOverallMinElevation, iOverallMaxElevation,
                   iNumFilesToConvert, opts, main, fi, threads,
                   outputMutex, globalResult, filesProcessed>>

FlagKept(result) == result

FreesElevationDataAfterRead(failedAt) == failedAt = "read"

\* the error branches that free iElevationData (lines 841, 886, 919, 936,
\* 951, 966, 981)
FreesElevationData(failedAt) == failedAt \in {"read", "overflow", "pixcount", "pixalloc"}

\* *(data->globalResult) = 1
FlagAfterWorkerError(result) == 1

\* the error branches (lines 816-820, 826-831, 837-844, 883-890, 915-922,
\* 934-989): message, unlock, release of what the branch releases, flag, return
WErrLog(f) ==
    /\ worker[f].pc = "errLog"
    /\ outputMutex' = "free"
    /\ worker' = [worker EXCEPT
                     ![f].pc = "ret",
                     ![f].InFile = IF worker[f].failedAt \in {"alloc", "read"} THEN FALSE ELSE @,
                     ![f].iElevationData =
                         IF FreesElevationData(worker[f].failedAt) THEN FALSE ELSE @]
    /\ globalResult' = FlagAfterWorkerError(globalResult)
    /\ UNCHANGED <<decode, parse, run, detail, veg, scan, mask, iOverallMinElevation, iOverallMaxElevation,
                   iNumFilesToConvert, opts, main, fi, threads,
                   filesProcessed>>

\* lines 852-856: the samples are decoded for the detail generation
WDecode(f) ==
    /\ worker[f].pc = "decode"
    /\ worker' = [worker EXCEPT ![f].pc = "nodata", ![f].stages = Enter(@, "Decoding")]
    /\ UNCHANGED <<decode, parse, run, detail, veg, scan, mask, iOverallMinElevation, iOverallMaxElevation,
                   iNumFilesToConvert, opts, main, fi, threads,
                   outputMutex, globalResult, filesProcessed>>

\* lines 860-865
WNoDataLog(f) ==
    /\ worker[f].pc = "nodataLog"
    /\ outputMutex' = "free"
    /\ worker' = StepTo(f, "addDetail")
    /\ UNCHANGED <<decode, parse, run, detail, veg, scan, mask, iOverallMinElevation, iOverallMaxElevation,
                   iNumFilesToConvert, opts, main, fi, threads,
                   globalResult, filesProcessed>>

DetailNullFails(f) == [worker EXCEPT ![f].pc = "err", ![f].failedAt = "detail",
                                     ![f].detailedData = "null",
                                     ![f].stages = Enter(@, "Detailing")]

\* lines 902-908: without a detailed raster the worker goes on with the
\* original one
DetailNullStep(f) == [worker EXCEPT ![f].pc = "warn", ![f].detailedData = "null",
                                    ![f].stages = Enter(@, "Detailing")]

\* how a call of AddProceduralDetail ends (lines 1501-1536): NULL on overflow
\* or failed allocation; y % (newHeight / 10) divides by zero when the new
\* height is below 10, and the process is killed or goes on
AddProceduralDetailOutcomes(width, height, scaleFactor) ==
    LET newWidth == safe_multiply_size_t(width, scaleFactor)
        newHeight == safe_multiply_size_t(height, scaleFactor)
        pixels == safe_multiply_size_t(newWidth.result, newHeight.result)
    IN  IF ~newWidth.ok \/ ~newHeight.ok \/ ~pixels.ok
           \/ ~safe_multiply_size_t(pixels.result, 2).ok
        THEN {"null"}
        ELSE IF newHeight.result \div 10 = 0
        THEN {"null", "data", "killed"}
        ELSE {"null", "data"}

\* the process dies: no thread takes another step
ProcessKilled ==
    /\ main' = [main EXCEPT !.pc = "crashed"]
    /\ worker' = [g \in Files |-> IF worker[g].pc \in {"idle", "ret"} THEN worker[g]
                                  ELSE [worker[g] EXCEPT !.pc = "killed"]]

\* lines 868-892 and 902: the call of AddProceduralDetail and what follows it
WAddDetail(f) ==
    /\ worker[f].pc = "addDetail"
    /\ \E outcome \in AddProceduralDetailOutcomes(fi[f].iWidth, fi[f].iHeight,
                                                   DEFAULT_SCALE_FACTOR) :
         IF outcome = "data"
         THEN LET w == fi[f].iWidth * DEFAULT_SCALE_FACTOR
                  h == fi[f].iHeight * DEFAULT_SCALE_FACTOR
                  newPixels == safe_multiply_size_t(w, h)
                  newFilesize == safe_multiply_size_t(newPixels.result, 2)
              IN  /\ UNCHANGED main
                  /\ IF ~newPixels.ok \/ ~newFilesize.ok
                     THEN /\ fi' = [fi EXCEPT ![f].iWidth = w, ![f].iHeight = h]
                          /\ worker' = PrintsUnlocked(
                                           [Fail(f, "overflow") EXCEPT
                                              ![f].detailedData = "data",
                                              ![f].stages = Enter(@, "Detailing")], f)
                     ELSE /\ fi' = [fi EXCEPT ![f].iWidth = w, ![f].iHeight = h,
                                              ![f].ulFilesize = newFilesize.result]
                          /\ worker' = PrintsUnlocked(
                                           [worker EXCEPT ![f].pc = "enhanced",
                                                          ![f].detailedData = "data",
                                                          ![f].stages = Enter(@, "Detailing")],
                                           f)
         ELSE IF outcome = "null"
         THEN /\ worker' = PrintsUnlocked(DetailNullStep(f), f)
              /\ UNCHANGED <<fi, main>>
         ELSE /\ ProcessKilled
              /\ UNCHANGED fi
    /\ UNCHANGED <<decode, parse, run, detail, veg, scan, mask, iOverallMinElevation, iOverallMaxElevation,
                   iNumFilesToConvert, opts, threads,
                   outputMutex, globalResult, filesProcessed>>

\* lines 895-900
WEnhancedLog(f) ==
    /\ worker[f].pc = "enhancedLog"
    /\ outputMutex' = "free"
    /\ worker' = StepTo(f, "pixcount")
    /\ UNCHANGED <<decode, parse, run, detail, veg, scan, mask, iOverallMinElevation, iOverallMaxElevation,
                   iNumFilesToConvert, opts, main, fi, threads,
                   globalResult, filesProcessed>>

\* lines 905-907
WWarnLog(f) ==
    /\ worker[f].pc = "warnLog"
    /\ outputMutex' = "free"
    /\ worker' = StepTo(f, "pixcount")
    /\ UNCHANGED <<decode, parse, run, detail, veg, scan, mask, iOverallMinElevation, iOverallMaxElevation,
                   iNumFilesToConvert, opts, main, fi, threads,
                   globalResult, filesProcessed>>

\* lines 912-991: pixel count, then the pixel block of the output format
WPixAlloc(f) ==
    /\ worker[f].pc = "pixcount"
    /\ IF ~safe_multiply_size_t(fi[f].iWidth, fi[f].iHeight).ok
       THEN worker' = Fail(f, "pixcount")
       ELSE \E allocated \in BOOLEAN :
              worker' = IF allocated
                        THEN [worker EXCEPT ![f].pc = "render", ![f].PixelData = TRUE]
                        ELSE PrintsUnlocked(Fail(f, "pixalloc"), f)
    /\ UNCHANGED <<decode, parse, run, detail, veg, scan, mask, iOverallMinElevation, iOverallMaxElevation,
                   iNumFilesToConvert, opts, main, fi, threads,
                   outputMutex, globalResult, filesProcessed>>

\* lines 993-1002: the effective range, read from the global one (no -m / -M)
WRender(f) ==
    /\ worker[f].pc = "render"
    /\ LET range == EffectiveRange(-1, -1, iOverallMinElevation, iOverallMaxElevation)
       IN  worker' = [worker EXCEPT ![f].pc = "pixel", ![f].m = 0,
                                    ![f].effectiveMinHeight = range.min,
                                    ![f].effectiveMaxHeight = range.max]
    /\ UNCHANGED <<decode, parse, run, detail, veg, scan, mask, iOverallMinElevation, iOverallMaxElevation,
                   iNumFilesToConvert, opts, main, fi, threads,
                   outputMutex, globalResult, filesProcessed>>

\* lines 1008-1069: one pass of the pixel loop (its values are those of
\* DataRender); without detail generation the sample is decoded here
WPixel(f) ==
    /\ worker[f].pc = "pixel"
    /\ LET decoded == IF opts.enableDetail THEN worker[f].stages
                      ELSE Enter(worker[f].stages, "Decoding")
       IN  worker' = [worker EXCEPT
                         ![f].stages = Enter(decoded, "ToneMapping"),
                         ![f].m = @ + 1,
                         ![f].pc = IF worker[f].m + 1 < MaxPixels THEN "pixel" ELSE "write"]
    /\ UNCHANGED <<decode, parse, run, detail, veg, scan, mask, iOverallMinElevation, iOverallMaxElevation,
                   iNumFilesToConvert, opts, main, fi, threads,
                   outputMutex, globalResult, filesProcessed>>

WriteSectionMaskFirst(stages, vegetationEnabled) ==
    Enter(IF vegetationEnabled THEN Enter(stages, "VegetationMasking") ELSE stages, "Writing")

\* lines 1076-1104: the image, then the vegetation mask if there is one
WriteSectionStages(stages, vegetationEnabled) ==
    IF vegetationEnabled THEN Enter(Enter(stages, "Writing"), "VegetationMasking")
    ELSE Enter(stages, "Writing")

\* lines 1076-1128: the image is written (png_image_write_to_file may fail:
\* WritePNG... prints a message and returns nothing), then the metadata, then
\* the vegetation mask, all under the mutex; then the buffers are freed
WWrite(f) ==
    /\ worker[f].pc = "writing"
    /\ outputMutex' = "free"
    /\ \E pngWritten \in BOOLEAN :
         worker' = [worker EXCEPT
                       ![f].pc = "count", ![f].iElevationData = FALSE,
                       ![f].PixelData = FALSE, ![f].written = TRUE,
                       ![f].writeFailed = ~pngWritten,
                       ![f].stages = WriteSectionStages(@, opts.vegetation.enabled)]
    /\ UNCHANGED <<decode, parse, run, detail, veg, scan, mask, iOverallMinElevation, iOverallMaxElevation,
                   iNumFilesToConvert, opts, main, fi, threads,
                   globalResult, filesProcessed>>

\* line 1132, the read of (*filesProcessed)++
WCountRead(f) ==
    /\ worker[f].pc = "countRead"
    /\ worker' = [worker EXCEPT ![f].pc = "countWrite", ![f].reg = filesProcessed]
    /\ UNCHANGED <<decode, parse, run, detail, veg, scan, mask, iOverallMinElevation, iOverallMaxElevation,
                   iNumFilesToConvert, opts, main, fi, threads,
                   outputMutex, globalResult, filesProcessed>>

\* line 1132, the write of (*filesProcessed)++, and lines 1133-1139
WCountWrite(f) ==
    /\ worker[f].pc = "countWrite"
    /\ filesProcessed' = worker[f].reg + 1
    /\ outputMutex' = "free"
    /\ worker' = [worker EXCEPT ![f].pc = "ret", ![f].counted = TRUE]
    /\ UNCHANGED <<decode, parse, run, detail, veg, scan, mask, iOverallMinElevation, iOverallMaxElevation,
                   iNumFilesToConvert, opts, main, fi, threads,
                   globalResult>>

Next ==
    \/ MainPreScanFile \/ Dispatch \/ WaveCheck \/ CreateThread \/ JoinThread \/ Cleanup
    \/ SeqCall \/ SeqReturn \/ Finish
    \/ \E f \in Files : WLock(f)
    \/ \E f \in Files : WStartLog(f)
    \/ \E f \in Files : WOpen(f)
    \/ \E f \in Files : WAlloc(f)
    \/ \E f \in Files : WRead(f)
    \/ \E f \in Files : WErrLog(f)
    \/ \E f \in Files : WDecode(f)
    \/ \E f \in Files : WNoDataLog(f)
    \/ \E f \in Files : WAddDetail(f)
    \/ \E f \in Files : WEnhancedLog(f)
    \/ \E f \in Files : WWarnLog(f)
    \/ \E f \in Files : WPixAlloc(f)
    \/ \E f \in Files : WRender(f)
    \/ \E f \in Files : WPixel(f)
    \/ \E f \in Files : WWrite(f)
    \/ \E f \in Files : WCountRead(f)
    \/ \E f \in Files : WCountWrite(f)

Spec == Init /\ [][Next]_vars

(***************************************************************************)
(* Properties of the batch                                                  *)
(***************************************************************************)
Launched(f) == worker[f].pc # "idle"

Completed(f) == worker[f].pc = "ret" /\ worker[f].failedAt = "none"

LaunchedFiles == { f \in Files : Launched(f) }

Smaller(a, b) == IF a < b THEN a ELSE b

ParallelReturned == main.mode = "parallel" /\ main.pc \in {"finish", "exit"}

\* C1: in parallel mode the files are launched in waves of
\* min(numThreads, remaining files) workers, one worker per file, in file
\* order, and while a worker of a later wave exists every worker of every
\* earlier wave has terminated and has been joined.
C1_WaveBarrier ==
    main.mode = "parallel" =>
      /\ main.pc \in {"create", "join"} =>
           main.threadsToStart = Smaller(opts.numThreads, iNumFilesToConvert - main.fileIndex)
      /\ main.pc = "create" =>
           /\ LaunchedFiles = 0 .. main.fileIndex + main.t - 1
           /\ main.t <= main.threadsToStart
      /\ (main.pc = "join" /\ main.failure = "none") =>
           LaunchedFiles = 0 .. main.fileIndex + main.threadsToStart - 1
      /\ \A f \in LaunchedFiles :
           /\ worker[f].wave = (f \div opts.numThreads) * opts.numThreads
           /\ f < worker[f].wave
                    + Smaller(opts.numThreads, iNumFilesToConvert - worker[f].wave)
      /\ \A f, g \in LaunchedFiles :
           worker[f].wave < worker[g].wave => worker[f].pc = "ret" /\ worker[f].joined

\* a worker of the second wave is running, the first wave is joined
C1_WitnessSecondWave ==
    /\ main.mode = "parallel" /\ main.pc = "join"
    /\ iNumFilesToConvert = 3 /\ opts.numThreads = 2
    /\ main.fileIndex = 2
    /\ worker[2].pc = "render"
    /\ worker[0].joined /\ worker[1].joined

\* C2: once a worker has set globalResult, no worker of a later wave is
\* ever launched, and when processFilesParallel returns every launched
\* worker has run to its return and has been joined.
C2_FailureStopsWaves ==
    main.mode = "parallel" =>
      /\ \A f, g \in LaunchedFiles :
           worker[f].wave < worker[g].wave => worker[f].failedAt = "none"
      /\ \A f \in LaunchedFiles :
           (worker[f].failedAt # "none" /\ worker[f].pc = "ret") => globalResult = 1
      /\ ParallelReturned =>
           \A f \in LaunchedFiles : worker[f].pc = "ret" /\ worker[f].joined

\* the second file fails to read, its wave mate completes, file 2 is never launched
C2_WitnessFlagSet ==
    /\ ParallelReturned /\ main.pc = "exit"
    /\ iNumFilesToConvert = 3 /\ opts.numThreads = 2
    /\ worker[1].failedAt = "read" /\ worker[1].joined
    /\ Completed(0) /\ worker[0].joined
    /\ ~Launched(2)
    /\ globalResult = 1

\* C3: when processFilesParallel returns and no file failed (and neither
\* the thread arrays nor a thread failed to be created), every file has
\* completed and filesProcessed equals the number of files.
C3_AllFilesCounted ==
    (/\ ParallelReturned
     /\ main.failure = "none"
     /\ \A f \in Files : worker[f].failedAt = "none")
    => /\ \A f \in Files : Completed(f)
       /\ filesProcessed = iNumFilesToConvert

\* three files in two waves, all counted
C3_WitnessThreeCounted ==
    /\ ParallelReturned
    /\ main.failure = "none"
    /\ iNumFilesToConvert = 3 /\ opts.numThreads = 2
    /\ \A f \in Files : Completed(f)
    /\ filesProcessed = 3

IoFailures == {"open", "read"}

NameSize(name) == ParseDimensions(name).iWidth * ParseDimensions(name).iHeight * 2

Scanned(i) == fi[i].ulFilesize # 0

\* fi[i] as the pre-scan left it (a worker with detail generation rewrites
\* iWidth, iHeight and ulFilesize)
SizeMismatch(i) ==
    /\ Scanned(i) /\ ~Launched(i)
    /\ fi[i].ulFilesize \notin {SRTM3_SIZE, SRTM1_SIZE}
    /\ fi[i].ulFilesize # NameSize(fi[i].szFilename)

Done(f) == Completed(f) /\ worker[f].written /\ ~worker[f].writeFailed

\* C17: the exit status of the run is 0 if and only if every file of the
\* batch reached Done; it is not 0 when a file failed or a thread could not
\* be created.
C17_ZeroIffAllDone ==
    main.pc = "exit" =>
      /\ main.exitCode = 0 <=> \A f \in Files : Done(f)
      /\ main.failure # "none" => main.exitCode # 0

RECURSIVE Repeat(_, _)
Repeat(seq, n) == IF n = 0 THEN <<>> ELSE seq \o Repeat(seq, n - 1)

IsPrefix(a, b) == Len(a) <= Len(b) /\ a = SubSeq(b, 1, Len(a))

StatedOrder == <<"Decoding", "Detailing", "ToneMapping", "VegetationMasking", "Writing">>

Rank(stage) == CHOOSE k \in 1 .. Len(StatedOrder) : StatedOrder[k] = stage

OptionalStagesAsConfigured(f) ==
    /\ (\E k \in 1 .. Len(worker[f].stages) : worker[f].stages[k] = "Detailing")
         => opts.enableDetail
    /\ (\E k \in 1 .. Len(worker[f].stages) : worker[f].stages[k] = "VegetationMasking")
         => opts.vegetation.enabled

\* C18 as stated: a file enters its stages in the order Decoding, Detailing,
\* ToneMapping, VegetationMasking, Writing, each stage once and only after
\* the one before it is over.
C18_StatedStageOrder ==
    \A f \in Files :
      /\ \A k \in 1 .. Len(worker[f].stages) - 1 :
           Rank(worker[f].stages[k]) < Rank(worker[f].stages[k + 1])
      /\ OptionalStagesAsConfigured(f)

\* the stages of a file that nothing stops
StagesOfRun ==
    (IF opts.enableDetail THEN <<"Decoding", "Detailing", "ToneMapping">>
     ELSE Repeat(<<"Decoding", "ToneMapping">>, MaxPixels))
    \o <<"Writing">>
    \o (IF opts.vegetation.enabled THEN <<"VegetationMasking">> ELSE <<>>)

\* C18: with detail generation a file goes through Decoding, Detailing,
\* ToneMapping, Writing and then (if enabled) VegetationMasking, each stage
\* once; without it there is no decoding stage of its own: every pass of the
\* pixel loop decodes one sample and tone-maps it, and Writing and (if
\* enabled) VegetationMasking follow.  A file that fails stops before Writing.
C18_StageOrderOfWorker ==
    \A f \in Files :
      /\ IsPrefix(worker[f].stages, StagesOfRun)
      /\ OptionalStagesAsConfigured(f)
      /\ Completed(f) => worker[f].stages = StagesOfRun
      /\ worker[f].failedAt # "none" =>
           \A k \in 1 .. Len(worker[f].stages) :
             worker[f].stages[k] \notin {"Writing", "VegetationMasking"}

\* a file with a vegetation mask and without detail generation has completed
C18_WitnessMaskAfterImage ==
    /\ Completed(0)
    /\ opts.vegetation.enabled /\ ~opts.enableDetail
    /\ worker[0].stages = StagesOfRun
    /\ worker[0].stages[Len(worker[0].stages)] = "VegetationMasking"
    /\ worker[0].stages[Len(worker[0].stages) - 1] = "Writing"

RangeWritten ==
    \/ iOverallMinElevation' # iOverallMinElevation
    \/ iOverallMaxElevation' # iOverallMaxElevation

HasReadRange(f) == worker[f].effectiveMinHeight # -1

\* C19: the global range is written only by the pre-scan, while no worker
\* has been launched; the pre-scan is over before the first worker starts;
\* every worker reads the range the pre-scan left.
C19_RangeReadOnlyForWorkers ==
    /\ [][RangeWritten => (main.pc = "prescan" /\ LaunchedFiles = {})]_vars
    /\ [](LaunchedFiles # {} => (main.pc # "prescan" /\ main.i = iNumFilesToConvert))
    /\ [](\A f \in Files :
            HasReadRange(f) => /\ worker[f].effectiveMinHeight = iOverallMinElevation
                               /\ worker[f].effectiveMaxHeight = iOverallMaxElevation)

\* two workers of one wave hold the range of the two files, 50 .. 900
C19_WitnessTwoReaders ==
    /\ main.mode = "parallel" /\ main.pc = "join"
    /\ HasReadRange(0) /\ HasReadRange(1)
    /\ worker[0].pc = "pixel" /\ worker[1].pc = "pixel"
    /\ worker[0].effectiveMinHeight = 50 /\ worker[0].effectiveMaxHeight = 900
    /\ worker[1].effectiveMinHeight = 50 /\ worker[1].effectiveMaxHeight = 900

(***************************************************************************)
(* IEEE 754 binary32 values of either sign, as the float expressions of    *)
(* the detail generation and of the vegetation density compute them: the   *)
(* record s, m, e stands for s * m * 2^e with m = 0 or 2^23 <= m < 2^24.   *)
(* Every operation is exact on integers and then rounded to nearest, ties  *)
(* to even.  The values met stay inside the normal range.                  *)
(***************************************************************************)
TwoTo24 == Pow2(24)

FlZero == [s |-> 1, m |-> 0, e |-> 0]

RECURSIVE FlNorm(_, _, _)
FlNorm(s, m, e) ==
    IF m = 0 THEN FlZero
    ELSE IF m < Pow2(23) THEN FlNorm(s, 2 * m, e - 1)
    ELSE [s |-> s, m |-> m, e |-> e]

\* rounding of (hi * 2^24 + lo) * 2^e, hi < 2^26, lo < 2^24
FlRound(s, hi, lo, e) ==
    IF hi = 0 THEN FlNorm(s, lo, e)
    ELSE LET d == BitLen(hi)
             q == IF d <= 24 THEN hi * Pow2(24 - d) + lo \div Pow2(d)
                  ELSE hi \div Pow2(d - 24)
             r == IF d <= 24 THEN lo % Pow2(d)
                  ELSE (hi % Pow2(d - 24)) * TwoTo24 + lo
             half == Pow2(d - 1)
             up == r > half \/ (r = half /\ q % 2 = 1)
             q1 == IF up THEN q + 1 ELSE q
         IN  IF q1 = TwoTo24 THEN [s |-> s, m |-> Pow2(23), e |-> e + d + 1]
             ELSE [s |-> s, m |-> q1, e |-> e + d]

\* (float)n for an integer |n| < 2^24
FlFromInt(n) == IF n < 0 THEN FlNorm(-1, -n, 0) ELSE FlNorm(1, n, 0)

FlNeg(x) == IF x.m = 0 THEN x ELSE [x EXCEPT !.s = -x.s]

\* x * y
FlMul(x, y) ==
    IF x.m = 0 \/ y.m = 0 THEN FlZero
    ELSE LET a1 == x.m \div 4096
             b1 == x.m % 4096
             a2 == y.m \div 4096
             b2 == y.m % 4096
             mid == a1 * b2 + a2 * b1
             loRaw == b1 * b2 + (mid % 4096) * 4096
             hi == a1 * a2 + mid \div 4096 + loRaw \div TwoTo24
         IN  FlRound(x.s * y.s, hi, loRaw % TwoTo24, x.e + y.e)

\* |x| >= |y| for normalised values
FlMagGe(x, y) ==
    IF y.m = 0 THEN TRUE
    ELSE IF x.m = 0 THEN FALSE
    ELSE x.e > y.e \/ (x.e = y.e /\ x.m >= y.m)

\* big + small for |big| >= |small|, both nonzero
FlAddOrdered(big, small) ==
    LET diff == big.e - small.e
    IN  IF diff > 25 THEN big
        ELSE LET hiB == IF diff <= 24 THEN big.m \div Pow2(24 - diff) ELSE 2 * big.m
                 loB == IF diff <= 24 THEN (big.m % Pow2(24 - diff)) * Pow2(diff) ELSE 0
                 same == big.s = small.s
                 loRaw == IF same THEN loB + small.m ELSE loB - small.m
                 lo == IF loRaw < 0 THEN loRaw + TwoTo24 ELSE loRaw % TwoTo24
                 hi == IF loRaw < 0 THEN hiB - 1 ELSE hiB + loRaw \div TwoTo24
             IN  FlRound(big.s, hi, lo, small.e)

\* x + y
FlAdd(x, y) ==
    IF x.m = 0 THEN y
    ELSE IF y.m = 0 THEN x
    ELSE IF FlMagGe(x, y) THEN FlAddOrdered(x, y)
    ELSE FlAddOrdered(y, x)

\* x - y
FlSub(x, y) == FlAdd(x, FlNeg(y))

\* x / n for an integer 1 <= n <= 16
FlDivInt(x, n) ==
    IF x.m = 0 THEN FlZero
    ELSE LET q == (x.m * 32) \div n
             sticky == IF (x.m * 32) % n = 0 THEN 0 ELSE 1
             w == 2 * q + sticky
         IN  FlRound(x.s, w \div TwoTo24, w % TwoTo24, x.e - 6)

\* x < y
FlLt(x, y) ==
    IF x.m = 0 THEN y.m # 0 /\ y.s = 1
    ELSE IF y.m = 0 THEN x.s = -1
    ELSE IF x.s # y.s THEN x.s = -1
    ELSE IF x.s = 1 THEN ~FlMagGe(x, y)
    ELSE ~FlMagGe(y, x)

FlGe(x, y) == ~FlLt(x, y)

FlGt(x, y) == FlLt(y, x)

FlLe(x, y) == ~FlLt(y, x)

\* (int)x: truncation toward zero, |x| < 2^31
FlTrunc(x) ==
    IF x.m = 0 THEN 0
    ELSE IF x.e >= 0 THEN x.s * x.m * Pow2(x.e)
    ELSE IF x.e <= -24 THEN 0
    ELSE x.s * (x.m \div Pow2(-x.e))

(***************************************************************************)
(* SpecDetail: one call of AddProceduralDetail.  The raster is given by    *)
(* its samples in row-major order; one step of the model is one pass of    *)
(* the inner loop.  FractalNoise (whose SimpleNoise overflows a signed     *)
(* int) and the square root of CalculateLocalSlope are not computed: the   *)
(* combined noise is any of NoiseSamples, the slope of an interior pixel   *)
(* with a height difference is any of SlopeSamples.                        *)
(***************************************************************************)
FlOne == FlFromInt(1)
FlHalf == [s |-> 1, m |-> 8388608, e |-> -24]
Fl1001 == [s |-> 1, m |-> 8396997, e |-> -23]
Fl03 == [s |-> 1, m |-> 10066330, e |-> -25]
Fl07 == [s |-> 1, m |-> 11744051, e |-> -24]
Fl08 == [s |-> 1, m |-> 13421773, e |-> -24]

\* data[row * width + col] of a raster kept as a sequence
At(data, width, col, row) == data[row * width + col + 1]

BilinearInterpolate(data, width, height, x, y) ==
    LET tx == FlTrunc(x)
        ty == FlTrunc(y)
        x2 == IF tx + 1 >= width THEN width - 1 ELSE tx + 1
        y2 == IF ty + 1 >= height THEN height - 1 ELSE ty + 1
        x1 == IF tx < 0 THEN 0 ELSE tx
        y1 == IF ty < 0 THEN 0 ELSE ty
        fx == FlSub(x, FlFromInt(x1))
        fy == FlSub(y, FlFromInt(y1))
        p1 == At(data, width, x1, y1)
        p2 == At(data, width, x2, y1)
        p3 == At(data, width, x1, y2)
        p4 == At(data, width, x2, y2)
        i1 == FlAdd(FlMul(FlFromInt(p1), FlSub(FlOne, fx)), FlMul(FlFromInt(p2), fx))
        i2 == FlAdd(FlMul(FlFromInt(p3), FlSub(FlOne, fx)), FlMul(FlFromInt(p4), fx))
    IN  FlTrunc(FlAdd(FlMul(i1, FlSub(FlOne, fy)), FlMul(i2, fy)))

NoiseSamples == { FlNeg(FlOne), FlZero, FlOne }

SlopeSamples == { Fl03, FlOne }

\* the values CalculateLocalSlope can return
CalculateLocalSlope(data, width, height, x, y) ==
    LET ix == FlTrunc(x)
        iy == FlTrunc(y)
    IN  IF ix <= 0 \/ ix >= width - 1 \/ iy <= 0 \/ iy >= height - 1
        THEN {FlZero}
        ELSE IF /\ At(data, width, ix + 1, iy) = At(data, width, ix - 1, iy)
                /\ At(data, width, ix, iy + 1) = At(data, width, ix, iy - 1)
        THEN {FlZero}
        ELSE SlopeSamples

GetHeightTypeFactor(height) ==
    IF height < 100 THEN FlHalf
    ELSE IF height < 500 THEN Fl07
    ELSE IF height < 1500 THEN FlOne
    ELSE IF height < 3000 THEN Fl08
    ELSE Fl03

\* srcX, srcY of lines 1543-1549
SourceCoordinate(i, scaleFactor, originalSize) ==
    LET src == FlDivInt(FlFromInt(i), scaleFactor)
    IN  IF FlGe(src, FlFromInt(originalSize - 1))
        THEN FlSub(FlFromInt(originalSize), Fl1001)
        ELSE src

\* detailedData[y * newWidth + x] of lines 1551-1581
DetailedSample(d, x, y, combinedNoise, localSlope) ==
    LET srcX == SourceCoordinate(x, d.scaleFactor, d.originalWidth)
        srcY == SourceCoordinate(y, d.scaleFactor, d.originalHeight)
        baseHeight == BilinearInterpolate(d.originalData, d.originalWidth, d.originalHeight,
                                          srcX, srcY)
        slopeMultiplier == FlAdd(Fl03, FlMul(localSlope, Fl07))
        heightFactor == GetHeightTypeFactor(baseHeight)
        detailVariation == FlMul(FlMul(FlMul(combinedNoise, d.detailIntensity),
                                       slopeMultiplier), heightFactor)
        raised == FlAdd(FlFromInt(baseHeight), detailVariation)
        finalHeight == IF FlLt(raised, FlZero) THEN FlZero
                       ELSE IF FlGt(raised, FlFromInt(MAX_HEIGHT)) THEN FlFromInt(MAX_HEIGHT)
                       ELSE raised
    IN  FlTrunc(FlAdd(finalHeight, FlHalf))

MaxDetailWidth == 3
DetailScales == {1, 2}
DEFAULT_DETAIL_INTENSITY == 15

\* heights below and at the first height whose tenth is not zero
DetailHeights == {3, 10}

\* decoded rasters: a plane base + gx * col + gy * row, within [0, MAX_HEIGHT]
DetailRaster(width, height, base, gx, gy) ==
    [i \in 1 .. width * height |-> base + gx * ((i - 1) % width) + gy * ((i - 1) \div width)]

DetailInit ==
    /\ decode = DecodeIdle /\ parse = ParseIdle /\ run = [pc |-> "idle"]
    /\ veg = CalcIdle /\ scan = CalcIdle /\ mask = CalcIdle /\ BatchIdle
    /\ \E width \in 1 .. MaxDetailWidth, height \in DetailHeights,
          base \in {0, 500, 3000}, gx \in {0, 1000}, gy \in {0, 100},
          scaleFactor \in DetailScales,
          intensity \in {0, DEFAULT_DETAIL_INTENSITY} :
         detail = [pc |-> "call",
                   originalData |-> DetailRaster(width, height, base, gx, gy),
                   originalWidth |-> width, originalHeight |-> height,
                   scaleFactor |-> scaleFactor, detailIntensity |-> FlFromInt(intensity),
                   newWidth |-> 0, newHeight |-> 0, x |-> 0, y |-> 0,
                   written |-> [x |-> -1, y |-> -1, value |-> 0]]

\* lines 1501-1522: the size of the result and its allocation
DetailAllocate ==
    /\ detail.pc = "call"
    /\ LET newWidth == safe_multiply_size_t(detail.originalWidth, detail.scaleFactor)
           newHeight == safe_multiply_size_t(detail.originalHeight, detail.scaleFactor)
           pixels == safe_multiply_size_t(newWidth.result, newHeight.result)
           bytes == safe_multiply_size_t(pixels.result, 2)
       IN  IF ~newWidth.ok \/ ~newHeight.ok \/ ~pixels.ok \/ ~bytes.ok
           THEN detail' = [detail EXCEPT !.pc = "null"]
           ELSE \E allocated \in BOOLEAN :
                  detail' = IF allocated
                            THEN [detail EXCEPT !.pc = "row", !.newWidth = newWidth.result,
                                                !.newHeight = newHeight.result]
                            ELSE [detail EXCEPT !.pc = "null"]
    /\ UNCHANGED <<decode, parse, run, veg, scan, mask, batchVars>>

\* lines 1527-1536 and 1585: the head of the row loop.  y % (newHeight / 10)
\* divides by zero when newHeight < 10: the call traps or goes on.
DetailRow ==
    /\ detail.pc = "row"
    /\ IF detail.y = detail.newHeight
       THEN detail' = [detail EXCEPT !.pc = "returned"]
       ELSE IF detail.newHeight \div 10 = 0
       THEN \E outcome \in {"pixel", "trapped"} : detail' = [detail EXCEPT !.pc = outcome]
       ELSE detail' = [detail EXCEPT !.pc = "pixel"]
    /\ UNCHANGED <<decode, parse, run, veg, scan, mask, batchVars>>

\* lines 1540-1582: one pass of the inner loop
DetailPixel ==
    /\ detail.pc = "pixel"
    /\ LET srcX == SourceCoordinate(detail.x, detail.scaleFactor, detail.originalWidth)
           srcY == SourceCoordinate(detail.y, detail.scaleFactor, detail.originalHeight)
       IN  \E combinedNoise \in NoiseSamples,
              localSlope \in CalculateLocalSlope(detail.originalData, detail.originalWidth,
                                                 detail.originalHeight, srcX, srcY) :
             detail' = [detail EXCEPT
                          !.written = [x |-> detail.x, y |-> detail.y,
                                       value |-> DetailedSample(detail, detail.x, detail.y,
                                                                combinedNoise, localSlope)],
                          !.x = IF detail.x + 1 = detail.newWidth THEN 0 ELSE @ + 1,
                          !.y = IF detail.x + 1 = detail.newWidth THEN @ + 1 ELSE @,
                          !.pc = IF detail.x + 1 = detail.newWidth THEN "row" ELSE "pixel"]
    /\ UNCHANGED <<decode, parse, run, veg, scan, mask, batchVars>>

DetailNext == DetailAllocate \/ DetailRow \/ DetailPixel

SpecDetail == DetailInit /\ [][DetailNext]_vars

\* C11: with scaleFactor 1 and detailIntensity 0 every sample written by
\* AddProceduralDetail equals the sample of the original raster at the same
\* column and row, the last column and the last row included.
C11_DetailIdentity ==
    (/\ detail.pc \in {"row", "pixel", "returned"}
     /\ detail.written.x >= 0
     /\ detail.scaleFactor = 1
     /\ detail.detailIntensity = FlZero
     /\ detail.newHeight >= 10)
    => detail.written.value
         = At(detail.originalData, detail.originalWidth, detail.written.x, detail.written.y)

\* x / y, y # 0
FlDiv(x, y) ==
    IF x.m = 0 THEN FlZero
    ELSE LET above == x.m >= y.m
             d == F32DivBits((IF above THEN x.m ELSE 2 * x.m) - y.m, y.m, 1, 23)
             up == 2 * d.r > y.m \/ (2 * d.r = y.m /\ d.m % 2 = 1)
             q == IF up THEN d.m + 1 ELSE d.m
             e == x.e - y.e - 23 - (IF above THEN 0 ELSE 1)
         IN  IF q = TwoTo24 THEN [s |-> x.s * y.s, m |-> Pow2(23), e |-> e + 1]
             ELSE [s |-> x.s * y.s, m |-> q, e |-> e]

(***************************************************************************)
(* SpecVeg: one call of calculate_vegetation_density_alpine with the       *)
(* parameters of initialize_alpine_biome, the only ones the program sets.  *)
(***************************************************************************)
Fl02 == [s |-> 1, m |-> 13421773, e |-> -26]
Fl04 == [s |-> 1, m |-> 13421773, e |-> -25]

AlpineBiome ==
    [enabled |-> TRUE,
     minElevation |-> FlFromInt(700), maxElevation |-> FlFromInt(2000),
     maxSlope |-> FlFromInt(60),
     treeLine |-> FlFromInt(1800), bushLine |-> FlFromInt(2200),
     grassLine |-> FlFromInt(2500),
     aspectModifier |-> Fl03, drainageBonus |-> Fl04]

ElevationFactorFloor(elevation, params) ==
    IF FlGt(elevation, params.grassLine) THEN FlZero ELSE Fl02

\* lines 2236-2264
ElevationFactor(elevation, params) ==
    IF FlLt(elevation, params.minElevation) THEN FlZero
    ELSE IF FlLe(elevation, params.treeLine)
    THEN LET range == FlSub(params.treeLine, params.minElevation)
         IN  FlSub(FlOne, FlMul(FlDiv(FlSub(elevation, params.minElevation), range), Fl03))
    ELSE IF FlLe(elevation, params.bushLine)
    THEN LET range == FlSub(params.bushLine, params.treeLine)
             position == FlDiv(FlSub(elevation, params.treeLine), range)
         IN  FlSub(Fl07, FlMul(position, Fl04))
    ELSE IF FlLe(elevation, params.grassLine)
    THEN LET range == FlSub(params.grassLine, params.bushLine)
             position == FlDiv(FlSub(elevation, params.bushLine), range)
         IN  FlSub(Fl03, FlMul(position, Fl02))
    ELSE FlZero

SlopeFactorToZero(slope, params) ==
    IF FlGt(slope, params.maxSlope) THEN FlZero
    ELSE IF FlGt(slope, FlFromInt(30))
    THEN FlSub(FlOne, FlDiv(FlSub(slope, FlFromInt(30)),
                            FlSub(params.maxSlope, FlFromInt(30))))
    ELSE FlOne

\* lines 2266-2276
SlopeFactor(slope, params) ==
    IF FlGt(slope, params.maxSlope) THEN FlZero
    ELSE IF FlGt(slope, FlFromInt(30))
    THEN FlSub(FlOne, FlMul(FlDiv(FlSub(slope, FlFromInt(30)),
                                  FlSub(params.maxSlope, FlFromInt(30))), Fl08))
    ELSE FlOne

AspectFactorIgnored(aspect, params) == FlOne

\* lines 2278-2290
AspectFactor(aspect, params) ==
    IF FlGe(aspect, FlFromInt(135)) /\ FlLe(aspect, FlFromInt(225))
    THEN FlSub(FlOne, params.aspectModifier)
    ELSE IF FlGe(aspect, FlFromInt(315)) \/ FlLe(aspect, FlFromInt(45))
    THEN FlAdd(FlOne, params.aspectModifier)
    ELSE FlOne

\* line 2293
DrainageFactor(drainage, params) == FlAdd(FlOne, FlMul(drainage, params.drainageBonus))

\* lines 2295-2304
calculate_vegetation_density_alpine(elevation, slope, aspect, drainage, params) ==
    IF ~params.enabled THEN 0
    ELSE LET product == FlMul(FlMul(FlMul(ElevationFactor(elevation, params),
                                          SlopeFactor(slope, params)),
                                    AspectFactor(aspect, params)),
                              DrainageFactor(drainage, params))
             final_density == IF FlLt(product, FlZero) THEN FlZero
                              ELSE IF FlGt(product, FlOne) THEN FlOne
                              ELSE product
         IN  FlTrunc(FlMul(final_density, FlFromInt(255)))

\* decoded elevations (integers in 1 .. MAX_HEIGHT) around the zone limits
VegElevations ==
    {1, 500, 699, 700, 701, 1250, 1799, 1800, 1801, 2000, 2199, 2200, 2201, 2350,
     2499, 2500, 2501, 3000, MAX_HEIGHT}

\* slope angles in degrees, halves included
VegSlopes == { FlDivInt(FlFromInt(n), 2) : n \in {0, 30, 59, 60, 61, 75, 90, 105, 119, 120, 121, 150, 179} }

VegAspects == { FlFromInt(a) : a \in {0, 45, 46, 90, 134, 135, 180, 225, 226, 270, 314, 315, 359} }

VegDrainages == { FlZero, Fl03, FlHalf, FlOne }

VegInit ==
    /\ decode = DecodeIdle /\ parse = ParseIdle /\ run = [pc |-> "idle"]
    /\ detail = CalcIdle /\ scan = CalcIdle /\ mask = CalcIdle /\ BatchIdle
    /\ \E elevation \in VegElevations, slope \in VegSlopes, aspect \in VegAspects,
          drainage \in VegDrainages :
         veg = [pc |-> "call", elevation |-> FlFromInt(elevation), slope |-> slope,
                aspect |-> aspect, drainage |-> drainage, params |-> AlpineBiome,
                slope_factor |-> FlZero, density |-> 0]

\* calculate_vegetation_density_alpine, lines 2229-2305
VegCall ==
    /\ veg.pc = "call"
    /\ veg' = [veg EXCEPT
                 !.pc = "returned",
                 !.slope_factor = SlopeFactor(veg.slope, veg.params),
                 !.density = calculate_vegetation_density_alpine(
                                 veg.elevation, veg.slope, veg.aspect, veg.drainage,
                                 veg.params)]
    /\ UNCHANGED <<decode, parse, run, detail, scan, mask, batchVars>>

SpecVeg == VegInit /\ [][VegCall]_vars

OutsideVegetation(elevation, slope, params) ==
    \/ FlLt(elevation, params.minElevation)
    \/ FlGt(elevation, params.grassLine)
    \/ FlGt(slope, params.maxSlope)

\* C14: the Alpine density is 0 below minElevation, above grassLine and for
\* a slope above maxSlope, whatever aspect and drainage are.
C14_ZeroOutsideZone ==
    (veg.pc = "returned" /\ OutsideVegetation(veg.elevation, veg.slope, veg.params))
    => veg.density = 0

\* just above the grass line, facing north in a valley on flat ground
C14_WitnessAboveGrassLine ==
    /\ veg.pc = "returned"
    /\ veg.elevation = FlFromInt(2501)
    /\ veg.slope = FlZero /\ veg.aspect = FlZero /\ veg.drainage = FlOne
    /\ veg.density = 0

\* f * 2^20, truncated
Scaled(f) == FlTrunc(FlMul(f, FlFromInt(Pow2(20))))

\* twice the slope angle, and twice the width of the declining band
TwiceSlope(slope) == FlTrunc(FlMul(slope, FlFromInt(2)))

TwiceBand(params) == TwiceSlope(params.maxSlope) - 60

\* |f - num / den| <= 2^-19 for positive integers num <= den
NearRatio(f, num, den) ==
    /\ Scaled(f) * den - Pow2(20) * num <= 2 * den
    /\ Pow2(20) * num - Scaled(f) * den <= 2 * den

\* C15 as stated: the slope factor is 1 up to 30 degrees, falls linearly from
\* 1 at 30 degrees to 0 at maxSlope, and is 0 above maxSlope.
C15_SlopeFactorFallsToZero ==
    veg.pc = "returned" =>
      IF FlGt(veg.slope, veg.params.maxSlope) THEN veg.slope_factor = FlZero
      ELSE IF FlLe(veg.slope, FlFromInt(30)) THEN veg.slope_factor = FlOne
      ELSE NearRatio(veg.slope_factor,
                     TwiceBand(veg.params) - (TwiceSlope(veg.slope) - 60),
                     TwiceBand(veg.params))

\* C15: the slope factor is 1 up to 30 degrees, falls linearly from 1 at 30
\* degrees to 0.2 at maxSlope, and is 0 above maxSlope.
C15_SlopeFactorFallsToFifth ==
    veg.pc = "returned" =>
      IF FlGt(veg.slope, veg.params.maxSlope) THEN veg.slope_factor = FlZero
      ELSE IF FlLe(veg.slope, FlFromInt(30)) THEN veg.slope_factor = FlOne
      ELSE /\ NearRatio(veg.slope_factor,
                        5 * TwiceBand(veg.params) - 4 * (TwiceSlope(veg.slope) - 60),
                        5 * TwiceBand(veg.params))
           /\ veg.slope = veg.params.maxSlope => veg.slope_factor = FlSub(FlOne, Fl08)

\* at maxSlope the factor is 1 - 0.8
C15_WitnessAtMaxSlope ==
    /\ veg.pc = "returned"
    /\ veg.slope = veg.params.maxSlope
    /\ veg.slope_factor = FlSub(FlOne, Fl08)
    /\ NearRatio(veg.slope_factor, 1, 5)

NorthDensity ==
    calculate_vegetation_density_alpine(veg.elevation, veg.slope, FlZero, veg.drainage,
                                        veg.params)

\* C16 as stated: for every elevation, slope and drainage the density for
\* aspect 180 is strictly less than the density for aspect 0.
C16_SouthStrictlyLess ==
    (veg.pc = "returned" /\ veg.aspect = FlFromInt(180)
     /\ FlGt(veg.params.aspectModifier, FlZero))
    => veg.density < NorthDensity

\* C16: the density for aspect 180 is strictly less than the density for
\* aspect 0 wherever the latter is not 0, that is for an elevation from
\* minElevation to grassLine and a slope up to maxSlope; elsewhere both are 0.
C16_SouthLessWhereVegetated ==
    (veg.pc = "returned" /\ veg.aspect = FlFromInt(180)
     /\ FlGt(veg.params.aspectModifier, FlZero))
    => IF OutsideVegetation(veg.elevation, veg.slope, veg.params)
       THEN veg.density = 0 /\ NorthDensity = 0
       ELSE veg.density < NorthDensity

\* a south-facing pixel in the montane zone
C16_WitnessSouthMontane ==
    /\ veg.pc = "returned" /\ veg.aspect = FlFromInt(180)
    /\ veg.elevation = FlFromInt(1250) /\ veg.slope = FlZero /\ veg.drainage = FlHalf
    /\ veg.density > 0 /\ veg.density < NorthDensity

(***************************************************************************)
(* Further properties of the single-file run (SpecData)                    *)
(***************************************************************************)
\* the decoded values of the samples of the file that are not NoData
RunValidDecoded ==
    LET raw == ReadSamples(run.bytes, run.hostLE)
    IN  { processElevationValue(raw[j], run.fi.srtmType, 0, run.hostLE).value :
            j \in { j \in 1 .. Len(raw) :
                      ~isNoDataValue(IF IsSrtm(run.fi.srtmType)
                                     THEN ToInt16(ntohs(ToUint16(raw[j]), run.hostLE))
                                     ELSE raw[j], run.fi.srtmType) } }

\* C21: after the pre-scan of a file its FileInfo record holds the minimum
\* and maximum elevation of the valid samples of the file in iMinElevation
\* and iMaxElevation.
C21_FileRangeRecorded ==
    (run.pc \in {"merged", "rendered"} /\ RunValidDecoded # {}) =>
        /\ run.fi.iMinElevation = SetMin(RunValidDecoded)
        /\ run.fi.iMaxElevation = SetMax(RunValidDecoded)

(***************************************************************************)
(* Further properties of the batch (Spec)                                  *)
(***************************************************************************)
ReturnedFailed(f) == worker[f].pc = "ret" /\ worker[f].failedAt # "none"

\* C22: with at most one file or numThreads <= 1 no thread is created, the
\* files are processed one at a time in index order, and the first file that
\* fails ends the processing with a result other than 0: no later file is
\* processed.
C22_SequentialStopsAtFailure ==
    (iNumFilesToConvert <= 1 \/ opts.numThreads <= 1) =>
      /\ main.mode \in {"none", "sequential"}
      /\ \A t \in DOMAIN threads : threads[t].state = "uninit"
      /\ main.created = 0
      /\ \A f, g \in Files :
           (f < g /\ Launched(g)) => Completed(f)
      /\ \A f \in Files :
           (ReturnedFailed(f) /\ main.pc \in {"finish", "exit"}) =>
               /\ main.processingResult # 0
               /\ \A g \in Files : g > f => ~Launched(g)
      /\ \A f \in Files :
           (ReturnedFailed(f) /\ main.pc = "exit") => main.exitCode # 0

\* three files on one thread: the second cannot be read, the third is never
\* processed
C22_WitnessSecondFileFails ==
    /\ iNumFilesToConvert = 3 /\ opts.numThreads = 1
    /\ main.mode = "sequential" /\ main.pc = "exit" /\ main.exitCode = 1
    /\ Completed(0)
    /\ ReturnedFailed(1) /\ worker[1].failedAt = "read"
    /\ ~Launched(2)

LiveThreads == { t \in DOMAIN threads : threads[t].state = "live" }

\* C23: no file is given to more than one worker, the threads that are
\* running work on pairwise distinct files, and a FileInfo entry is written
\* only by the pre-scan of that file and by the worker of that file.
C23_OneWorkerPerFile ==
    /\ [](\A f \in Files : worker[f].launches <= 1)
    /\ [](\A t, u \in LiveThreads : t # u => threads[t].file # threads[u].file)
    /\ [][\A f \in Files :
            fi'[f] # fi[f] =>
              \/ main.pc = "prescan" /\ main.i = f /\ LaunchedFiles = {}
              \/ /\ worker[f].pc = "addDetail"
                 /\ \A g \in Files \ {f} : worker'[g] = worker[g]]_vars

\* two workers of one wave are running on files 0 and 1
C23_WitnessTwoWorkers ==
    /\ main.mode = "parallel"
    /\ LiveThreads = {0, 1}
    /\ threads[0].file = 0 /\ threads[1].file = 1
    /\ worker[0].pc = "render" /\ worker[1].pc = "render"
    /\ worker[0].launches = 1 /\ worker[1].launches = 1

\* C24: every diagnostic line of a running worker, those of the detail
\* generation and of the allocation helper included, and every increment of
\* filesProcessed happens while the worker holds the output mutex.
C24_DiagnosticsUnderMutex ==
    \A f \in Files :
      /\ ~worker[f].unlockedDiag
      /\ worker[f].pc \in {"countRead", "countWrite"} => outputMutex = "locked"

\* C25: when pthread_create fails in a wave, globalResult is set, the
\* workers of that wave that were started run to their return and are
\* joined, no later wave is launched, and processFilesParallel returns a
\* result other than 0 (it is neither killed nor stuck in a join).
C25_SpawnFailureEndsBatch ==
    main.failure = "create" =>
      /\ globalResult = 1
      /\ main.pc \notin {"crashed", "hung"}
      /\ \A f \in LaunchedFiles : worker[f].wave <= main.fileIndex
      /\ main.pc \in {"finish", "exit"} =>
           /\ \A f \in LaunchedFiles : worker[f].pc = "ret" /\ worker[f].joined
           /\ main.processingResult # 0

\* the positions at which a worker holds the output mutex
HoldingPcs == { LockThen[p] : p \in DOMAIN LockThen } \cup {"countWrite"}

Holders == { f \in Files : worker[f].pc \in HoldingPcs }

C28_JoinsOnlyCreatedHandles ==
    (main.pc = "join" /\ main.t < main.threadsToStart) => main.t < main.created

(***************************************************************************)
(* NoData count of the single-file run (SpecData)                          *)
(***************************************************************************)
\* C27: after the pre-scan and the worker, noDataCount of the file is the
\* number of its sentinel samples: each of them is counted once.
C27_NoDataCountedOnce ==
    (run.pc = "rendered" /\ IsSrtm(run.fi.srtmType)) =>
        run.fi.noDataCount = Cardinality(SentinelAt)

(***************************************************************************)
(* SpecMask: the row loop of generate_vegetation_mask                      *)
(***************************************************************************)
MaxMaskRows == 3
MaskWidth == 2
MaskTeam == 2

\* the values the density computation of a pixel can give; the computation
\* reads elevation_data and the options only, which the loop does not change
MaskDensities == {0, 255}

\* line 2413: the loop is run by a team only if numThreads > 1
MaskTeamOf(numThreads) == IF numThreads > 1 THEN 0 .. MaskTeam - 1 ELSE {0}

\* lines 2398-2410: one row buffer for the whole loop.  Its first content is
\* never written to the image: a thread writes the buffer only after it has
\* stored every pixel of its row.
MaskInit ==
    /\ decode = DecodeIdle /\ parse = ParseIdle /\ run = [pc |-> "idle"]
    /\ detail = CalcIdle /\ veg = CalcIdle /\ scan = CalcIdle /\ BatchIdle
    /\ \E n \in 1 .. MaskTeam, h \in 1 .. MaxMaskRows :
         \E d \in [0 .. h * MaskWidth - 1 -> MaskDensities] :
            mask = [pc |-> "rows", numThreads |-> n,
                    iHeight |-> h, iWidth |-> MaskWidth, density |-> d,
                    next |-> 0,
                    row |-> [x \in 0 .. MaskWidth - 1 |-> 0],
                    png |-> <<>>, order |-> <<>>,
                    th |-> [t \in MaskTeamOf(n) |->
                               [pc |-> "idle", y |-> 0, x |-> 0]]]

\* schedule(dynamic, 1): a thread that is free takes the next row
MaskTakeRow(t) ==
    /\ mask.pc = "rows"
    /\ mask.th[t].pc = "idle"
    /\ mask.next < mask.iHeight
    /\ mask' = [mask EXCEPT !.th[t] = [pc |-> "fill", y |-> mask.next, x |-> 0],
                            !.next = @ + 1]
    /\ UNCHANGED <<decode, parse, run, detail, veg, scan, batchVars>>

\* lines 2427-2461: row[x] = vegetation_density, in the buffer all threads share
MaskFillPixel(t) ==
    /\ mask.pc = "rows"
    /\ mask.th[t].pc = "fill"
    /\ LET y == mask.th[t].y
           x == mask.th[t].x
           index == y * mask.iWidth + x
       IN  mask' = [mask EXCEPT !.row[x] = mask.density[index],
                                !.th[t].x = x + 1,
                                !.th[t].pc = IF x + 1 < mask.iWidth THEN "fill" ELSE "write"]
    /\ UNCHANGED <<decode, parse, run, detail, veg, scan, batchVars>>

\* lines 2464-2467: png_write_row(png_ptr, row) in the critical section
MaskWriteRow(t) ==
    /\ mask.pc = "rows"
    /\ mask.th[t].pc = "write"
    /\ mask' = [mask EXCEPT !.png = Append(@, mask.row),
                            !.order = Append(@, mask.th[t].y),
                            !.th[t].pc = "idle"]
    /\ UNCHANGED <<decode, parse, run, detail, veg, scan, batchVars>>

\* lines 2476-2486: the loop is over when every row was taken and written
MaskEnd ==
    /\ mask.pc = "rows"
    /\ mask.next = mask.iHeight
    /\ \A t \in DOMAIN mask.th : mask.th[t].pc = "idle"
    /\ mask' = [mask EXCEPT !.pc = "done"]
    /\ UNCHANGED <<decode, parse, run, detail, veg, scan, batchVars>>

MaskNext ==
    \/ \E t \in 0 .. MaskTeam - 1 : t \in DOMAIN mask.th /\ MaskTakeRow(t)
    \/ \E t \in 0 .. MaskTeam - 1 : t \in DOMAIN mask.th /\ MaskFillPixel(t)
    \/ \E t \in 0 .. MaskTeam - 1 : t \in DOMAIN mask.th /\ MaskWriteRow(t)
    \/ MaskEnd

SpecMask == MaskInit /\ [][MaskNext]_vars

\* the densities of raster row y
MaskRowOf(y) == [x \in 0 .. mask.iWidth - 1 |-> mask.density[y * mask.iWidth + x]]

\* C29: however the threads of the row loop interleave, the rows are written
\* to the image in the order 0 .. height - 1 and the y-th row written holds
\* the densities of raster row y.
C29_RowsInRasterOrder ==
    mask.pc = "done" =>
        /\ Len(mask.png) = mask.iHeight
        /\ \A y \in 0 .. mask.iHeight - 1 :
             /\ mask.order[y + 1] = y
             /\ mask.png[y + 1] = MaskRowOf(y)

(***************************************************************************)
(* The batch under fair scheduling                                         *)
(***************************************************************************)
\* The threads are scheduled fairly and every stage terminates: while main
\* or a worker can take a step, a step is taken.  No step of the batch can
\* be repeated, so this gives every thread that stays able to run its turn.
FairSpec == Spec /\ WF_vars(Next)

\* C30: under fair scheduling processFilesParallel terminates: the call
\* returns, every worker that was launched returns (and, in parallel mode, is
\* joined), and the output mutex is free when it is destroyed.
C30_ParallelTerminates ==
    /\ (main.pc = "dispatch") ~> (main.pc \in {"finish", "exit"})
    /\ \A f \in 0 .. MaxFiles - 1 :
         (f \in Files /\ Launched(f)) ~> (f \in Files /\ worker[f].pc = "ret"
                                          /\ (main.mode = "parallel" => worker[f].joined))
    /\ [](main.pc = "cleanup" => outputMutex = "free")

=============================================================================
